---- MODULE Spec2Model ----
(***************************************************************************)
(* Answer-resolution pipeline of the educational question-answering        *)
(* service: handle_chat (app.py), search_in_book, get_gemini_response,     *)
(* check_answer_from_curriculum and gemini_with_retry                      *)
(* (gemini_multimodal.py).                                                 *)
(*                                                                         *)
(* Texts are sequences of tokens.  A token is a one-character string, or a *)
(* named token standing for a fixed run of characters of the source (an    *)
(* Arabic literal, a word of a generated answer); TokLen gives the number  *)
(* of characters a token stands for.                                       *)
(***************************************************************************)
EXTENDS Integers, Sequences, FiniteSets, TLC

\* Python None / SQL NULL: None for identifiers, NoneText where a text is
\* expected (a text is a sequence, so its absent value is one too).
None == "None"
NoneText == <<None>>

Min(a, b) == IF a <= b THEN a ELSE b

(***************************************************************************)
(* Text primitives: str.lower, str.strip, the `in` substring test.         *)
(***************************************************************************)
UpperChars == <<"A","B","C","D","E","F","G","H","I","J","K","L","M",
                "N","O","P","Q","R","S","T","U","V","W","X","Y","Z">>
LowerChars == <<"a","b","c","d","e","f","g","h","i","j","k","l","m",
                "n","o","p","q","r","s","t","u","v","w","x","y","z">>

LowerChar(c) ==
    IF \E i \in 1..Len(UpperChars) : UpperChars[i] = c
    THEN LowerChars[CHOOSE i \in 1..Len(UpperChars) : UpperChars[i] = c]
    ELSE c

Lower(s) == [i \in 1..Len(s) |-> LowerChar(s[i])]

Whitespace == {" ", "\n", "\t"}

RECURSIVE LStrip(_)
LStrip(s) ==
    IF s # <<>> /\ Head(s) \in Whitespace THEN LStrip(Tail(s)) ELSE s

RECURSIVE RStrip(_)
RStrip(s) ==
    IF s # <<>> /\ s[Len(s)] \in Whitespace
    THEN RStrip(SubSeq(s, 1, Len(s) - 1))
    ELSE s

Strip(s) == RStrip(LStrip(s))

Contains(hay, needle) ==
    \E i \in 0..(Len(hay) - Len(needle)) :
        SubSeq(hay, i + 1, i + Len(needle)) = needle

\* Python truthiness of an optional string: None and '' are false.
Truthy(v) == v # NoneText /\ v # <<>>

\* Truthiness of an optional identifier.
IdTruthy(id) == id # None

(***************************************************************************)
(* gemini_with_retry: constants and the transient-error classifier.        *)
(* Times are in sixteenths of a second, so that 1.5 * retry_delay is exact.*)
(***************************************************************************)
Scale == 16
max_retries == 3
timeout == 60
InitialRetryDelay == 1
MaxSleep == 5
MaxJitterNum == 8        \* random.uniform(0, 0.5): up to 8/16 s

Marker503 == <<"5","0","3">>
MarkerOverloaded == <<"o","v","e","r","l","o","a","d","e","d">>
MarkerUnavailable == <<"u","n","a","v","a","i","l","a","b","l","e">>
MarkerTimeout == <<"t","i","m","e","o","u","t">>

\* a classifier whose timeout marker is cut short to "time"
IsTransientShortMarker(e) ==
    LET error_str == Lower(e)
    IN \/ Contains(error_str, Marker503)
       \/ Contains(error_str, MarkerOverloaded)
       \/ Contains(error_str, MarkerUnavailable)
       \/ Contains(error_str, <<"t","i","m","e">>)

\* error_str = str(e).lower(); the four `in` tests of line 56
IsTransient(e) ==
    LET error_str == Lower(e)
    IN \/ Contains(error_str, Marker503)
       \/ Contains(error_str, MarkerOverloaded)
       \/ Contains(error_str, MarkerUnavailable)
       \/ Contains(error_str, MarkerTimeout)

\* Exception("Timeout exceeded while waiting for Gemini API")
TimeoutExceededMsg ==
    <<"T","i","m","e","o","u","t"," ","e","x","c","e","e","d","e","d"," ",
      "w","h","i","l","e"," ","w","a","i","t","i","n","g"," ","f","o","r"," ",
      "G","e","m","i","n","i"," ","A","P","I">>

\* Errors the underlying generate_content call may raise.
Err503 == <<"5","0","3"," ","U","N","A","V","A","I","L","A","B","L","E">>
ErrOverloaded == <<"M","o","d","e","l"," ","i","s"," ",
                   "O","v","e","r","l","o","a","d","e","d">>
ErrTimedOut == <<"t","i","m","e","d"," ","o","u","t">>
ErrBadRequest == <<"4","0","0"," ","I","N","V","A","L","I","D">>

UpstreamErrors == {Err503, ErrOverloaded, ErrTimedOut, ErrBadRequest}

\* Durations of one generate_content call, in seconds.
CallDurations == {0, 61}
\* Values of random.uniform(0, 0.5), in sixteenths of a second.
Jitters == {0, MaxJitterNum}

(***************************************************************************)
(* Token lengths.  Word tokens stand for five-character words of a         *)
(* generated answer or of a curriculum document; every other token is one  *)
(* character, except the named literals below.                             *)
(***************************************************************************)
WordTokens == {"w1", "w2", "w3", "w4", "w5", "w6", "w7", "w8"}

\* Rejection phrases of check_answer_from_curriculum, one token each.
rejection_phrases ==
    << <<"GHAYR_MAWJUD">>, <<"LAYSA_FI_ALMANHAJ">>, <<"KHARIJ_NITAQ">>,
       <<"GHAYR_MUQARRAR">>, <<"LAYSA_MUQARRAR">>, <<"GHAYR_MUTAWAFFIR">>,
       <<"LA_ASTATI">>, <<"UDHRAN">>, <<"LA_YUMKINUNI">> >>

LiteralLen ==
    [t \in {"GHAYR_MAWJUD", "LAYSA_FI_ALMANHAJ", "KHARIJ_NITAQ",
            "GHAYR_MUQARRAR", "LAYSA_MUQARRAR", "GHAYR_MUTAWAFFIR",
            "LA_ASTATI", "UDHRAN", "LA_YUMKINUNI"} |->
        CASE t = "GHAYR_MAWJUD" -> 9
          [] t = "LAYSA_FI_ALMANHAJ" -> 13
          [] t = "KHARIJ_NITAQ" -> 9
          [] t = "GHAYR_MUQARRAR" -> 8
          [] t = "LAYSA_MUQARRAR" -> 8
          [] t = "GHAYR_MUTAWAFFIR" -> 9
          [] t = "LA_ASTATI" -> 9
          [] t = "UDHRAN" -> 5
          [] t = "LA_YUMKINUNI" -> 9]

\* Fixed messages of the source, one token each (their length is not used).
FixedMessageTokens ==
    {"MSG_CANCELLED", "MSG_GEMINI_ERROR", "MSG_NO_ANSWER_ABOUT",
     "MSG_THIS_TOPIC", "MSG_REPHRASE", "MSG_FILE_ERROR",
     "HDR_IMAGE_TEXT", "HDR_FILE_TEXT", "HDR_AUDIO_TEXT", "HDR_ANSWER",
     "MSG_TEXT_FROM_IMAGE", "MSG_CLEAR_FROM_IMAGE", "MSG_CHECK_IMAGE",
     "MSG_FILE_EMPTY", "MSG_READING_FILE", "MSG_EXTRACT_FROM_FILE",
     "MSG_RECOGNISING_SPEECH", "MSG_NO_TEXT_IN_AUDIO", "MSG_PROCESS_AUDIO",
     "MSG_NOT_ANALYSED", "MSG_ANALYSIS_ERROR", "MSG_ANALYSE_IMAGE",
     "MSG_SUMMARISE_FILE", "MSG_TRANSCRIBE_AUDIO", "MSG_NO_CURRICULUM"}

\* a word of one hundred characters
LongWord == "w100"
\* a word of fifty thousand characters
HugeWord == "w50000"

TokLen(t) ==
    IF t \in WordTokens THEN 5
    ELSE IF t = LongWord THEN 100
    ELSE IF t = HugeWord THEN 50000
    ELSE IF t \in DOMAIN LiteralLen THEN LiteralLen[t]
    ELSE IF t \in FixedMessageTokens THEN 40
    ELSE 1

RECURSIVE TextLen(_)
TextLen(s) == IF s = <<>> THEN 0 ELSE TokLen(Head(s)) + TextLen(Tail(s))

(***************************************************************************)
(* SQL LIKE with the wildcards % and _ (both operands already lowercased). *)
(***************************************************************************)
RECURSIVE Like(_, _)
Like(text, pat) ==
    IF pat = <<>> THEN text = <<>>
    ELSE IF Head(pat) = "%"
         THEN \E k \in 0..Len(text) :
                  Like(SubSeq(text, k + 1, Len(text)), Tail(pat))
    ELSE IF text = <<>> THEN FALSE
    ELSE /\ (Head(pat) = "_" \/ Head(pat) = Head(text))
         /\ Like(Tail(text), Tail(pat))

\* column LIKE '%terms%'; a NULL column never matches.
LikeContains(column, terms) ==
    /\ column # NoneText
    /\ Like(Lower(column), <<"%">> \o terms \o <<"%">>)

(***************************************************************************)
(* search_in_book.  A row of book_qa is                                    *)
(* [grade_id, semester_id, department_id, question, answer, keywords].     *)
(* LIMIT 1 after an ORDER BY on the rank alone leaves the choice among     *)
(* rows of equal rank to the database: SearchInBook is the set of answers  *)
(* the query may return ({NoneText} when neither pass finds a row).            *)
(***************************************************************************)
SearchTerms(question) == Lower(Strip(question))

\* a comparison for which a NULL parameter matches every row
SqlEqNullMatches(column, param) == param = None \/ column = param

\* `column = ?` is never true when either side is NULL.
SqlEq(column, param) == column # None /\ param # None /\ column = param

\* an ORDER BY without the equality case
ScopedRankNoEquality(e, terms) ==
    IF LikeContains(e.question, terms) THEN 2
    ELSE IF LikeContains(e.keywords, terms) THEN 3
    ELSE 4

\* the CASE of the first query's ORDER BY
ScopedRank(e, terms) ==
    IF Lower(e.question) = terms THEN 1
    ELSE IF LikeContains(e.question, terms) THEN 2
    ELSE IF LikeContains(e.keywords, terms) THEN 3
    ELSE 4

RelaxedRank(e, terms) ==
    IF LikeContains(e.question, terms) THEN 1
    ELSE IF LikeContains(e.keywords, terms) THEN 2
    ELSE 3

ScopedRows(table, terms, grade_id, semester_id, department_id) ==
    {i \in 1..Len(table) :
        /\ SqlEq(table[i].grade_id, grade_id)
        /\ SqlEq(table[i].semester_id, semester_id)
        /\ SqlEq(table[i].department_id, department_id)
        /\ \/ LikeContains(table[i].question, terms)
           \/ LikeContains(table[i].keywords, terms)
           \/ LikeContains(table[i].answer, terms)}

RelaxedRows(table, terms, grade_id, semester_id) ==
    {i \in 1..Len(table) :
        /\ SqlEq(table[i].grade_id, grade_id)
        /\ SqlEq(table[i].semester_id, semester_id)
        /\ \/ LikeContains(table[i].question, terms)
           \/ LikeContains(table[i].keywords, terms)}

SearchInBook(table, question, grade_id, semester_id, department_id) ==
    LET terms == SearchTerms(question)
        scoped == ScopedRows(table, terms, grade_id, semester_id, department_id)
        relaxed == RelaxedRows(table, terms, grade_id, semester_id)
        firstScoped == {i \in scoped : \A j \in scoped :
                           ScopedRank(table[i], terms) <= ScopedRank(table[j], terms)}
        firstRelaxed == {i \in relaxed : \A j \in relaxed :
                           RelaxedRank(table[i], terms) <= RelaxedRank(table[j], terms)}
    IN IF scoped # {} THEN {table[i].answer : i \in firstScoped}
       ELSE IF relaxed # {} THEN {table[i].answer : i \in firstRelaxed}
       ELSE {NoneText}

(***************************************************************************)
(* Curriculum documents.  A row of developer_files joined with its         *)
(* file_departments links is                                               *)
(* [content, grade_id, semester_id, departments, status].                  *)
(***************************************************************************)
\* a query without the status test
ActiveDocRowsAnyStatus(files, grade_id, semester_id, department_id) ==
    SelectSeq(files, LAMBDA f :
        /\ SqlEq(f.grade_id, grade_id)
        /\ SqlEq(f.semester_id, semester_id)
        /\ department_id # None /\ department_id \in f.departments
        /\ f.content # NoneText /\ f.content # <<>>)

\* the WHERE clause of lines 607-614 (and 524-531)
ActiveDocRows(files, grade_id, semester_id, department_id) ==
    SelectSeq(files, LAMBDA f :
        /\ SqlEq(f.grade_id, grade_id)
        /\ SqlEq(f.semester_id, semester_id)
        /\ department_id # None /\ department_id \in f.departments
        /\ f.status = "active"
        /\ f.content # NoneText /\ f.content # <<>>)

DocLimit == 3
DocCharCeiling == 100000

\* content_row[0][:100000]
RECURSIVE TakeChars(_, _)
TakeChars(s, n) ==
    IF s = <<>> \/ TokLen(Head(s)) > n THEN <<>>
    ELSE <<Head(s)>> \o TakeChars(Tail(s), n - TokLen(Head(s)))

\* every matching row, whole
CurriculumPartsUncapped(files, grade_id, semester_id, department_id) ==
    IF IdTruthy(grade_id) /\ IdTruthy(semester_id) /\ IdTruthy(department_id)
    THEN LET rows == ActiveDocRows(files, grade_id, semester_id, department_id)
         IN [i \in 1..Len(rows) |-> rows[i].content]
    ELSE <<>>

\* curriculum_parts of get_gemini_response: at most DocLimit rows, each cut
\* to its first DocCharCeiling characters.
CurriculumParts(files, grade_id, semester_id, department_id) ==
    IF IdTruthy(grade_id) /\ IdTruthy(semester_id) /\ IdTruthy(department_id)
    THEN LET rows == ActiveDocRows(files, grade_id, semester_id, department_id)
             limited == SubSeq(rows, 1, Min(DocLimit, Len(rows)))
         IN [i \in 1..Len(limited) |->
                IF TextLen(limited[i].content) > DocCharCeiling
                THEN TakeChars(limited[i].content, DocCharCeiling)
                ELSE limited[i].content]
    ELSE <<>>

\* "\n\n---\n\n".join(curriculum_parts)
PartSeparator == <<"\n", "\n", "-", "-", "-", "\n", "\n">>
RECURSIVE JoinParts(_)
JoinParts(parts) ==
    IF parts = <<>> THEN <<>>
    ELSE IF Len(parts) = 1 THEN parts[1]
    ELSE parts[1] \o PartSeparator \o JoinParts(Tail(parts))

\* 'لا يوجد محتوى منهج مرفوع لهذه الفرقة والقسم'
NoCurriculumPlaceholder == <<"MSG_NO_CURRICULUM">>

\* {curriculum_content if curriculum_content else "..."} of the prompt
CurriculumSection(parts) ==
    LET curriculum_content == JoinParts(parts)
    IN IF curriculum_content # <<>> THEN curriculum_content
       ELSE NoCurriculumPlaceholder

\* the prompt of get_gemini_response: its documents, the section they make
\* and the question
BuiltPrompt(parts, question) ==
    [built |-> TRUE, curriculum |-> parts,
     section |-> CurriculumSection(parts), question |-> question]

(***************************************************************************)
(* check_answer_from_curriculum: the phrase-overlap audit.                 *)
(***************************************************************************)
RECURSIVE SplitAcc(_, _, _, _)
SplitAcc(s, seps, acc, cur) ==
    IF s = <<>> THEN Append(acc, cur)
    ELSE IF Head(s) \in seps
         THEN SplitAcc(Tail(s), seps, Append(acc, cur), <<>>)
         ELSE SplitAcc(Tail(s), seps, acc, Append(cur, Head(s)))

\* re.split(r'[.!?。]', text)
SentenceTerminators == {".", "!", "?", "IDEOGRAPHIC_FULL_STOP"}
SplitSentences(text) == SplitAcc(text, SentenceTerminators, <<>>, <<>>)

\* sentence.split()
SplitWords(sentence) ==
    SelectSeq(SplitAcc(sentence, Whitespace, <<>>, <<>>), LAMBDA w : w # <<>>)

\* ' '.join(words[from..to]), 1-based and inclusive
RECURSIVE JoinWords(_, _, _)
JoinWords(words, from, to) ==
    IF from > to THEN <<>>
    ELSE IF from = to THEN words[from]
    ELSE words[from] \o <<" ">> \o JoinWords(words, from + 1, to)

MinSentenceWords == 4
MaxPhraseWords == 6
MinPhraseChars == 15

\* the phrases of one sentence, from position i (0-based) on
RECURSIVE SentencePhrases(_, _)
SentencePhrases(words, i) ==
    IF Len(words) < MinSentenceWords \/ i >= Len(words) - 3 THEN <<>>
    ELSE LET phrase == JoinWords(words, i + 1,
                                 i + Min(MaxPhraseWords, Len(words) - i))
         IN (IF TextLen(phrase) > MinPhraseChars THEN <<Strip(phrase)>> ELSE <<>>)
            \o SentencePhrases(words, i + 1)

RECURSIVE PhrasesOf(_)
PhrasesOf(sentences) ==
    IF sentences = <<>> THEN <<>>
    ELSE SentencePhrases(SplitWords(Head(sentences)), 0)
         \o PhrasesOf(Tail(sentences))

\* gemini_phrases for the cleaned answer
GeminiPhrases(gemini_clean) == PhrasesOf(SplitSentences(gemini_clean))

CountMatches(phrases, curriculum_text) ==
    Cardinality({i \in 1..Len(phrases) : Contains(curriculum_text, phrases[i])})

RatioNum == 15
RatioDen == 100
MinMatches == 2
LengthFallback == 800

\* a test that knows the ratio only
DocVerifiesRatioOnly(gemini_clean, content) ==
    LET curriculum_text == Strip(Lower(content))
        phrases == GeminiPhrases(gemini_clean)
        matches == CountMatches(phrases, curriculum_text)
        total_phrases == Len(phrases)
    IN /\ curriculum_text # <<>>
       /\ total_phrases > 0
       /\ matches * RatioDen >= RatioNum * total_phrases

\* total_phrases > 0 and (matches/total_phrases >= 0.15 or matches >= 2)
DocVerifies(gemini_clean, content) ==
    LET curriculum_text == Strip(Lower(content))
        phrases == GeminiPhrases(gemini_clean)
        matches == CountMatches(phrases, curriculum_text)
        total_phrases == Len(phrases)
    IN /\ curriculum_text # <<>>
       /\ total_phrases > 0
       /\ (matches * RatioDen >= RatioNum * total_phrases \/ matches >= MinMatches)

\* an audit without the rejection test
HasRejectionPhraseNever(gemini_clean) == FALSE

\* any(phrase in gemini_clean for phrase in rejection_phrases)
HasRejectionPhrase(gemini_clean) ==
    \E k \in 1..Len(rejection_phrases) : Contains(gemini_clean, rejection_phrases[k])

\* a fallback that accepts the threshold itself
LongEnoughInclusive(gemini_answer) == TextLen(gemini_answer) >= LengthFallback

\* len(gemini_answer) > 800
LongEnough(gemini_answer) == TextLen(gemini_answer) > LengthFallback

check_answer_from_curriculum(files, gemini_answer, grade_id, semester_id, department_id) ==
    IF ~Truthy(gemini_answer) THEN FALSE
    ELSE LET rows == ActiveDocRows(files, grade_id, semester_id, department_id)
             gemini_clean == Strip(Lower(gemini_answer))
         IN IF rows = <<>> THEN FALSE
            ELSE IF HasRejectionPhrase(gemini_clean) THEN FALSE
            ELSE IF \E r \in 1..Len(rows) : DocVerifies(gemini_clean, rows[r].content)
                 THEN TRUE
            ELSE LongEnough(gemini_answer)

(***************************************************************************)
(* Fixed texts and tables of handle_chat.                                  *)
(***************************************************************************)
\* 'غير محدد'
Unspecified == <<"GHAYR_MUHADDAD">>

\* SELECT name FROM departments WHERE id = ?
DepartmentName(department_id) ==
    CASE department_id = "1" -> <<"D","1">>
      [] department_id = "2" -> <<"D","2">>
      [] OTHER -> Unspecified

AcceptPhrases ==
    { <<"NAAM">>, <<"AH">>, <<"MUWAFIQ">>, <<"y","e","s">>,
      <<"NAAM"," ","URID"," ","ALIJABA">> }

CancelledMsg == <<"MSG_CANCELLED">>
\* the apology get_gemini_response returns when the retried call raised
GeminiErrorMsg == <<"UDHRAN", ",", " ", "MSG_GEMINI_ERROR">>
FileErrorMsg == <<"MSG_FILE_ERROR">>

DeflectionMsg(department_name) ==
    <<"UDHRAN", ",", " ", "MSG_NO_ANSWER_ABOUT", " ">>
    \o (IF department_name # Unspecified THEN department_name
        ELSE <<"MSG_THIS_TOPIC">>)
    \o <<".", " ", "MSG_REPHRASE">>

ALLOWED_EXTENSIONS ==
    {"txt", "pdf", "doc", "docx", "jpg", "jpeg", "png", "gif",
     "mp3", "wav", "m4a", "ogg", "flac", "webm"}
ImageExtensions == {"jpg", "jpeg", "png", "gif", "webp"}
DocumentExtensions == {"pdf", "doc", "docx", "txt"}
AudioExtensions == {"mp3", "wav", "m4a", "ogg", "flac", "webm"}

NoFile == ""
\* file_id.rsplit('.', 1)[1].lower() if '.' in file_id else ''
FileExtension(file_id) ==
    CASE file_id = "pic.PNG" -> "png"
      [] file_id = "notes.txt" -> "txt"
      [] file_id = "clip.mp3" -> "mp3"
      [] file_id = "anim.webp" -> "webp"
      [] file_id = "tool.exe" -> "exe"
      [] file_id = "gone.png" -> "png"
      [] OTHER -> ""

\* a handler without the ALLOWED_EXTENSIONS test
FileAllowedAny(file_extension) == TRUE

\* if file_extension not in ALLOWED_EXTENSIONS: return ... (lines 914-916)
FileAllowed(file_extension) == file_extension \in ALLOWED_EXTENSIONS

\* an if / elif chain that sends every file to analyze_image
FileKindAlwaysImage(file_extension) == "image"

\* the if / elif chain of lines 920-952
FileKind(file_extension) ==
    IF file_extension \in ImageExtensions THEN "image"
    ELSE IF file_extension \in DocumentExtensions THEN "document"
    ELSE IF file_extension \in AudioExtensions THEN "audio"
    ELSE "none"

\* `question or "<default>"`: the user_question handed to the analyzer
UserQuestion(question, kind) ==
    IF Truthy(question) THEN question
    ELSE IF kind = "image" THEN <<"MSG_ANALYSE_IMAGE">>
    ELSE IF kind = "document" THEN <<"MSG_SUMMARISE_FILE">>
    ELSE <<"MSG_TRANSCRIBE_AUDIO">>

\* The values handle_chat returns.
Success(resp, source) ==
    [raised |-> FALSE, success |-> TRUE, response |-> resp,
     source |-> source, error |-> None]
Failure(message) ==
    [raised |-> FALSE, success |-> FALSE, response |-> NoneText,
     source |-> None, error |-> message]
\* an exception leaving handle_chat
Raised(message) ==
    [raised |-> TRUE, success |-> FALSE, response |-> NoneText,
     source |-> None, error |-> message]
NoResult == Failure("NO_RESULT_YET")

\* a handler without the final except: the exception leaves handle_chat
ChatHandlerNoExcept(e) == Raised(e)

\* except Exception as e: ... return {'success': False, 'error': ...}
ChatHandlerExcept(e) == Failure("ERR_CHAT_HANDLER")

(***************************************************************************)
(* The content extractors of gemini_multimodal.py.  `io` is the outcome of *)
(* reading the file (OCR, file read, speech recognition): the text read,   *)
(* or the exception raised; `reply` is the outcome of                      *)
(* gemini_with_retry(call_gemini): response.text, or the exception raised. *)
(***************************************************************************)
MarkerNoText == <<"LA_YUMKIN", " ", "ISTIKHRAJ", " ", "NASS">>
MarkerExtractFailed == <<"FASHAL_FI", " ", "ISTIKHRAJ">>
MarkerFailedIn == <<"FASHAL_FI">>
MarkerErrorOccurred == <<"HADATHA_KHATA">>
MarkerCouldNot == <<"LAM_ATAMAKKAN">>

\* the three returns that follow `response = gemini_with_retry(call_gemini)`
AnalysisText(header, extracted_text, reply) ==
    IF reply.raised
    THEN header \o <<"\n">> \o extracted_text
         \o <<"\n", "\n", "(", "MSG_ANALYSIS_ERROR", ":", " ">>
         \o reply.text \o <<")">>
    ELSE IF Truthy(reply.text)
    THEN header \o <<"\n">> \o extracted_text
         \o <<"\n", "\n", "-", "-", "-", "\n", "\n", "HDR_ANSWER", "\n">>
         \o reply.text
    ELSE header \o <<"\n">> \o extracted_text
         \o <<"\n", "\n", "(", "MSG_NOT_ANALYSED", ")">>

extract_text_from_image(io) ==
    IF io.raised
    THEN <<"FASHAL_FI", " ", "ISTIKHRAJ", " ", "MSG_TEXT_FROM_IMAGE">>
    ELSE IF Strip(io.text) # <<>>
    THEN <<"HDR_IMAGE_TEXT", "\n", "\n">> \o Strip(io.text)
    ELSE <<"LA_YUMKIN", " ", "ISTIKHRAJ", " ", "NASS", " ",
           "MSG_CLEAR_FROM_IMAGE">>

analyze_image(io, user_question, client, reply) ==
    LET extracted_text == extract_text_from_image(io)
    IN IF \/ ~Truthy(extracted_text)
          \/ Contains(extracted_text, MarkerNoText)
          \/ Contains(extracted_text, MarkerExtractFailed)
       THEN <<"UDHRAN", ",", " ", "LA_YUMKINUNI", " ", "ISTIKHRAJ", " ",
              "NASS", " ", "MSG_CHECK_IMAGE">>
       ELSE IF Truthy(user_question) /\ client
       THEN AnalysisText(<<"HDR_IMAGE_TEXT">>, extracted_text, reply)
       ELSE extracted_text

\* the documents explored are .txt files: the suffix test selects
\* extract_text_from_txt
extract_text_from_txt(io) ==
    IF io.raised
    THEN <<"HADATHA_KHATA", " ", "MSG_READING_FILE", ":", " ">> \o io.text
    ELSE IF Strip(io.text) # <<>>
    THEN <<"HDR_FILE_TEXT", "\n", "\n">> \o Strip(io.text)
    ELSE <<"MSG_FILE_EMPTY">>

analyze_document(io, user_question, client, reply) ==
    LET extracted_text == extract_text_from_txt(io)
    IN IF \/ ~Truthy(extracted_text)
          \/ Contains(extracted_text, MarkerFailedIn)
          \/ Contains(extracted_text, MarkerErrorOccurred)
       THEN <<"UDHRAN", ",", " ", "LAM_ATAMAKKAN", " ",
              "MSG_EXTRACT_FROM_FILE", ":", " ">> \o extracted_text
       ELSE IF Truthy(user_question) /\ client
       THEN AnalysisText(<<"HDR_FILE_TEXT">>, extracted_text, reply)
       ELSE extracted_text

\* io.raised: the except around the speech recognition (line 194)
extract_text_from_audio(io) ==
    IF io.raised
    THEN <<"FASHAL_FI", " ", "MSG_RECOGNISING_SPEECH">>
    ELSE IF Strip(io.text) # <<>>
    THEN <<"HDR_AUDIO_TEXT", "\n", "\n">> \o Strip(io.text)
    ELSE <<"MSG_NO_TEXT_IN_AUDIO">>

analyze_audio(io, user_question, client, reply) ==
    LET extracted_text == extract_text_from_audio(io)
    IN IF \/ ~Truthy(extracted_text)
          \/ Contains(extracted_text, MarkerFailedIn)
          \/ Contains(extracted_text, MarkerCouldNot)
          \/ Contains(extracted_text, MarkerErrorOccurred)
       THEN <<"UDHRAN", ",", " ", "LAM_ATAMAKKAN", " ",
              "MSG_PROCESS_AUDIO", ".", " ">> \o extracted_text
       ELSE IF Truthy(user_question) /\ client
       THEN AnalysisText(<<"HDR_AUDIO_TEXT">>, extracted_text, reply)
       ELSE extracted_text

\* the analyzer the file kind selects
Analyze(kind, io, user_question, client, reply) ==
    IF kind = "image" THEN analyze_image(io, user_question, client, reply)
    ELSE IF kind = "document"
    THEN analyze_document(io, user_question, client, reply)
    ELSE analyze_audio(io, user_question, client, reply)

(***************************************************************************)
(* Inputs and stored data explored by the model.                           *)
(***************************************************************************)
Usernames == { <<" ">>, <<"u">> }
Messages == { <<>>, <<" ","A"," ">>, <<"z">> }
FileIds == { NoFile, "pic.PNG", "notes.txt", "clip.mp3", "tool.exe",
             "anim.webp", "gone.png" }
GradeIds == { None, "1" }
SemesterIds == { None, "1" }
DepartmentIds == { None, "1", "2" }
Confirms == { NoneText, <<"Y","e","s">>, <<"NAAM">>, <<"n","o">> }
Pendings == { NoneText, <<"p">> }

Requests ==
    [username : Usernames, message : Messages, file_id : FileIds,
     gradeId : GradeIds, semesterId : SemesterIds, departmentId : DepartmentIds,
     confirm_answer : Confirms, pending_answer : Pendings]

NoRequest ==
    [username |-> <<>>, message |-> <<>>, file_id |-> NoFile,
     gradeId |-> None, semesterId |-> None, departmentId |-> None,
     confirm_answer |-> NoneText, pending_answer |-> NoneText]

NoPrompt ==
    [built |-> FALSE, curriculum |-> <<>>, section |-> <<>>, question |-> <<>>]

QaExact ==
    [grade_id |-> "1", semester_id |-> "1", department_id |-> "1",
     question |-> <<"A">>, answer |-> <<"x","1">>, keywords |-> NoneText]
QaSubstring ==
    [grade_id |-> "1", semester_id |-> "1", department_id |-> "1",
     question |-> <<"a","b">>, answer |-> <<"x","2">>, keywords |-> <<"k">>]
QaOtherDept ==
    [grade_id |-> "1", semester_id |-> "1", department_id |-> "2",
     question |-> <<"c">>, answer |-> <<"x","3">>, keywords |-> <<"a">>]

BookTables == { <<>>, <<QaSubstring, QaExact, QaOtherDept>> }

DocSix == <<"w1"," ","w2"," ","w3"," ","w4"," ","w5"," ","w6">>
FileSix ==
    [content |-> DocSix, grade_id |-> "1", semester_id |-> "1",
     departments |-> {"1"}, status |-> "active"]

FileTables == { <<>>, <<FileSix>> }

\* response.text of a successful generate_content call
GroundedText == <<"w1"," ","w2"," ","w3"," ","w4"," ","w5"," ","w6",".">>
UngroundedText == <<"w7"," ","w8"," ","w7"," ","w8">>
RefusalText == <<"GHAYR_MAWJUD">>
GeminiTexts == { GroundedText, UngroundedText, RefusalText, <<>>, NoneText }

\* what reading an uploaded file may produce: a text, a blank text, or an
\* exception
ErrIo == <<"E","r","r","n","o"," ","5">>
IoOutcomes ==
    { [raised |-> FALSE, text |-> <<"t","x","t">>],
      [raised |-> FALSE, text |-> <<" ">>],
      [raised |-> TRUE, text |-> ErrIo] }
NoIo == [raised |-> FALSE, text |-> <<>>]

\* what gemini_with_retry(call_gemini) may produce inside an analyzer
AnalysisReplies ==
    { [raised |-> FALSE, text |-> UngroundedText],
      [raised |-> FALSE, text |-> NoneText],
      [raised |-> TRUE, text |-> ErrBadRequest] }

\* the files present in UPLOAD_FOLDER when the request arrives
UploadedFiles == {"pic.PNG", "notes.txt", "clip.mp3", "tool.exe", "anim.webp"}

NoAnalysis == [kind |-> "none", io |-> NoIo, text |-> NoneText]

(***************************************************************************)
(* State.                                                                  *)
(***************************************************************************)
VARIABLES
    book_qa,            \* table book_qa, in rowid order
    developer_files,    \* table developer_files joined with file_departments
    uploads,            \* names of the files present in UPLOAD_FOLDER
    conversations,      \* table conversations
    gemini_client,      \* TRUE iff the generative client is configured
    pc,                 \* position of the request inside handle_chat
    req,                \* the request payload
    book_answer,        \* what search_in_book returned
    gemini_answer,      \* what get_gemini_response returned
    is_from_curriculum, \* what check_answer_from_curriculum returned
    prompt,             \* the prompt built by get_gemini_response
    response,           \* handle_chat's response
    response_source,    \* handle_chat's response_source
    result,             \* the value handle_chat returned
    attempt,            \* gemini_with_retry: loop index
    retry_delay,        \* gemini_with_retry: base delay (1/16 s)
    clock,              \* time.time() - start_time (1/16 s)
    exc,                \* the exception being handled
    retry_state,        \* "idle", "running", "returned" or "raised"
    sleeps,             \* the time.sleep durations so far (1/16 s)
    nCalls,             \* calls of func() so far
    nTransientRaised,   \* calls of func() that raised a marked error
    timeout_seen,       \* the wall-clock check has fired
    trace,              \* collaborators invoked by this request, in order
    analysis,           \* the analyzer called, what it read and returned
    workers,            \* concurrent file requests: position and outcome of each
    session,            \* the Flask session of the administrator's browser
    admin_sessions,     \* table admin_sessions, id = position
    grades,             \* table grades, id = position
    semesters,          \* table semesters, id = position
    departments,        \* table departments joined with department_grades
    now,                \* time.time(), in seconds
    authority,          \* the last successful admin_login and what followed it
    unlinked,           \* the links taken away by delete_developer_file
    served              \* API requests answered so far

stores == <<book_qa, developer_files, uploads, gemini_client>>
retryVars == <<attempt, retry_delay, clock, exc, retry_state, sleeps, nCalls,
               nTransientRaised, timeout_seen>>
chatVars == <<req, book_answer, gemini_answer, is_from_curriculum, prompt,
              response, response_source>>
adminVars == <<session, admin_sessions, grades, semesters, departments, now,
               authority, unlinked, served>>
vars == <<stores, conversations, pc, chatVars, result, retryVars, trace,
          analysis, workers, adminVars>>

(***************************************************************************)
(* The administrator's session and the tables it guards, at rest.          *)
(***************************************************************************)
\* ADMIN_SESSION_TIMEOUT = 1800
ADMIN_SESSION_TIMEOUT == 1800
\* a missing admin_login_time: session.get returns None, which is falsy
NoTime == 0
NoSession == [admin_session_id |-> None, admin_login_time |-> NoTime]
\* AUTOINCREMENT ids and uuid4 session ids, in the order they are handed out
IdOrder == <<"1", "2", "3">>
RowId(i) == IdOrder[i]
\* the first of the default rows of insert_initial_data
DefaultRow == [name |-> "A", is_active |-> TRUE]
\* time.time() at start-up
StartTime == 1
NoAuthority == [login_time |-> NoTime, logged_out |-> FALSE]

AdminIdle ==
    /\ session = NoSession
    /\ admin_sessions = <<>>
    /\ grades = <<DefaultRow>>
    /\ semesters = <<DefaultRow>>
    /\ departments = <<>>
    /\ now = StartTime
    /\ authority = NoAuthority
    /\ unlinked = {}
    /\ served = 0

Init ==
    /\ book_qa \in BookTables
    /\ developer_files \in FileTables
    /\ uploads = UploadedFiles
    /\ conversations = <<>>
    /\ gemini_client \in BOOLEAN
    /\ pc = "idle"
    /\ req = NoRequest
    /\ book_answer = NoneText
    /\ gemini_answer = NoneText
    /\ is_from_curriculum = FALSE
    /\ prompt = NoPrompt
    /\ response = NoneText
    /\ response_source = None
    /\ result = NoResult
    /\ attempt = 0
    /\ retry_delay = InitialRetryDelay * Scale
    /\ clock = 0
    /\ exc = NoneText
    /\ retry_state = "idle"
    /\ sleeps = <<>>
    /\ nCalls = 0
    /\ nTransientRaised = 0
    /\ timeout_seen = FALSE
    /\ trace = <<>>
    /\ analysis = NoAnalysis
    /\ workers = <<>>
    /\ AdminIdle

(***************************************************************************)
(* handle_chat.                                                            *)
(***************************************************************************)
Return(value) ==
    /\ result' = value
    /\ pc' = "done"

\* the membership test without .lower()
ConfirmAcceptedCaseSensitive(confirm_answer) == confirm_answer \in AcceptPhrases

\* confirm_answer.lower() in [...]
ConfirmAccepted(confirm_answer) == Lower(confirm_answer) \in AcceptPhrases

\* a cancellation tagged like the deflection
ConfirmationOutcomeDefaultTag(confirm_answer, pending_answer) ==
    IF ConfirmAccepted(confirm_answer)
    THEN [response |-> pending_answer, source |-> "gemini"]
    ELSE [response |-> CancelledMsg, source |-> "default"]

\* lines 885-891: the response and response_source of the confirmation branch
ConfirmationOutcome(confirm_answer, pending_answer) ==
    IF ConfirmAccepted(confirm_answer)
    THEN [response |-> pending_answer, source |-> "gemini"]
    ELSE [response |-> CancelledMsg, source |-> "cancelled"]

\* Lines 845-892: validation, the name look-ups and the choice of branch.
\* The confirmation branch is completed here.
\* a dispatch that looks at the file first
BranchFileFirst(data) ==
    IF data.file_id # NoFile THEN "file"
    ELSE IF Truthy(data.confirm_answer) /\ Truthy(data.pending_answer)
    THEN "confirm"
    ELSE "search"

\* if confirm_answer and pending_answer: ... elif file_id: ... else: ...
\* (lines 884, 892, 969)
Branch(data) ==
    IF Truthy(data.confirm_answer) /\ Truthy(data.pending_answer)
    THEN "confirm"
    ELSE IF data.file_id # NoFile THEN "file"
    ELSE "search"

HandleChatBegin ==
    /\ pc = "idle"
    /\ \E data \in Requests, dbOk \in BOOLEAN :
        LET username == Strip(data.username)
            question == Strip(data.message)
            file_id == data.file_id
        IN /\ req' = data
           /\ IF username = <<>>
              THEN Return(Failure("ERR_USERNAME_REQUIRED"))
                   /\ UNCHANGED <<response, response_source>>
              ELSE IF question = <<>> /\ file_id = NoFile
              THEN Return(Failure("ERR_QUESTION_OR_FILE_REQUIRED"))
                   /\ UNCHANGED <<response, response_source>>
              ELSE IF ~dbOk
              THEN Return(ChatHandlerExcept("sqlite3.Error"))
                   /\ UNCHANGED <<response, response_source>>
              ELSE IF Branch(data) = "confirm"
              THEN LET o == ConfirmationOutcome(data.confirm_answer,
                                                data.pending_answer)
                   IN /\ response' = o.response
                      /\ response_source' = o.source
                      /\ pc' = "record"
                      /\ UNCHANGED result
              ELSE /\ pc' = Branch(data)
                   /\ UNCHANGED <<response, response_source, result>>
    /\ UNCHANGED <<stores, adminVars, workers, analysis,
                   conversations, book_answer, gemini_answer,
                   is_from_curriculum, prompt, retryVars, trace>>

\* a pipeline that ignores the matcher's answer
BookAnsweredNever(answer) == FALSE

\* if book_answer:
BookAnswered(answer) == Truthy(answer)

\* Lines 971-975: search_in_book, whose own except turns a failed query
\* into (None, None).
SearchBook ==
    /\ pc = "search"
    /\ \E dbOk \in BOOLEAN :
        \E answer \in (IF dbOk
                       THEN SearchInBook(book_qa, Strip(req.message), req.gradeId,
                                         req.semesterId, req.departmentId)
                       ELSE {NoneText}) :
           /\ book_answer' = answer
           /\ IF BookAnswered(answer)
              THEN /\ response' = answer
                   /\ response_source' = "book"
                   /\ pc' = "record"
              ELSE /\ pc' = "gemini"
                   /\ UNCHANGED <<response, response_source>>
    /\ trace' = Append(trace, "search_in_book")
    /\ UNCHANGED <<stores, adminVars, workers, analysis,
                   conversations, req, gemini_answer,
                   is_from_curriculum, prompt, result, retryVars>>

(***************************************************************************)
(* get_gemini_response and gemini_with_retry.                              *)
(***************************************************************************)
\* Lines 508-572: no client -> None; otherwise the prompt is built (a failed
\* curriculum query is caught and leaves the curriculum empty) and the
\* retried call starts.
GetGeminiResponse ==
    /\ pc = "gemini"
    /\ IF ~gemini_client
       THEN /\ gemini_answer' = NoneText
            /\ pc' = "resolve"
            /\ UNCHANGED <<prompt, retryVars>>
       ELSE /\ \E dbOk \in BOOLEAN :
                prompt' = BuiltPrompt(
                              IF dbOk
                              THEN CurriculumParts(developer_files, req.gradeId,
                                                   req.semesterId, req.departmentId)
                              ELSE <<>>,
                              Strip(req.message))
            /\ attempt' = 0
            /\ retry_delay' = InitialRetryDelay * Scale
            /\ clock' = 0
            /\ retry_state' = "running"
            /\ pc' = "retry_try"
            /\ UNCHANGED <<gemini_answer, exc, sleeps, nCalls, nTransientRaised,
                           timeout_seen>>
    /\ UNCHANGED <<stores, adminVars, workers, analysis,
                   conversations, req, book_answer, is_from_curriculum,
                   response, response_source, result, trace>>

\* time.time() - start_time > timeout
TimeoutElapsed(elapsed) == elapsed > timeout * Scale

\* the claim-side reading of "transient": the lowercased text carries a marker
HasTransientMarker(e) ==
    \E m \in {Marker503, MarkerOverloaded, MarkerUnavailable, MarkerTimeout} :
        Contains(Lower(e), m)

\* The try block of one iteration (lines 47-52): the wall-clock check, then
\* func().  A returned response ends get_gemini_response with response.text.
RetryTry ==
    /\ pc = "retry_try"
    /\ IF TimeoutElapsed(clock)
       THEN /\ exc' = TimeoutExceededMsg
            /\ timeout_seen' = TRUE
            /\ pc' = "retry_except"
            /\ UNCHANGED <<clock, nCalls, nTransientRaised, retry_state,
                           gemini_answer, trace>>
       ELSE /\ \E d \in CallDurations : clock' = clock + d * Scale
            /\ nCalls' = nCalls + 1
            /\ trace' = Append(trace, "generate_content")
            /\ UNCHANGED timeout_seen
            /\ \/ \E text \in GeminiTexts :
                    /\ gemini_answer' = text
                    /\ retry_state' = "returned"
                    /\ pc' = "resolve"
                    /\ UNCHANGED <<exc, nTransientRaised>>
               \/ \E e \in UpstreamErrors :
                    /\ exc' = e
                    /\ nTransientRaised' =
                           nTransientRaised + (IF HasTransientMarker(e) THEN 1 ELSE 0)
                    /\ pc' = "retry_except"
                    /\ UNCHANGED <<gemini_answer, retry_state>>
    /\ UNCHANGED <<stores, adminVars, workers, analysis,
                   conversations, req, book_answer, is_from_curriculum,
                   prompt, response, response_source, result, attempt,
                   retry_delay, sleeps>>

\* an off-by-one in the last-attempt test
LastAttemptEarly(a) == a = max_retries - 2

\* if attempt == max_retries - 1
LastAttempt(a) == a = max_retries - 1

\* sleep_time = min(retry_delay + jitter, 5)
SleepTime(delay, jitter) == Min(delay + jitter, MaxSleep * Scale)

\* a delay that is never multiplied
NextRetryDelayConstant(delay) == Min(delay, MaxSleep * Scale)

\* retry_delay = min(retry_delay * 1.5, 5)
NextRetryDelay(delay) == Min((delay * 3) \div 2, MaxSleep * Scale)

\* except gemini_error: the apology of line 591
GeminiFailureAnswer(e) == GeminiErrorMsg

\* The except block of one iteration (lines 53-70).  A re-raised error ends
\* gemini_with_retry and is caught by get_gemini_response (lines 588-591).
RetryExcept ==
    /\ pc = "retry_except"
    /\ IF IsTransient(exc) /\ ~LastAttempt(attempt)
       THEN /\ \E jitter \in Jitters :
                LET sleep_time == SleepTime(retry_delay, jitter)
                IN /\ sleeps' = Append(sleeps, sleep_time)
                   /\ clock' = clock + sleep_time
            /\ retry_delay' = NextRetryDelay(retry_delay)
            /\ attempt' = attempt + 1
            /\ pc' = "retry_try"
            /\ UNCHANGED <<retry_state, gemini_answer>>
       ELSE /\ retry_state' = "raised"
            /\ gemini_answer' = GeminiFailureAnswer(exc)
            /\ pc' = "resolve"
            /\ UNCHANGED <<sleeps, clock, retry_delay, attempt>>
    /\ UNCHANGED <<stores, adminVars, workers, analysis,
                   conversations, req, book_answer, is_from_curriculum,
                   prompt, response, response_source, result, exc, nCalls,
                   nTransientRaised, timeout_seen, trace>>

\* a test for None only, which lets an empty text through
GeminiAnsweredNotNone(answer) == answer # NoneText

\* if gemini_answer:
GeminiAnswered(answer) == Truthy(answer)

\* a pipeline in which a failed verification withholds the answer
GenerativeOutcomeGated(answer, verified) ==
    [response |-> IF verified THEN answer ELSE DeflectionMsg(Unspecified),
     source |-> "gemini"]

\* lines 994-995: the response and response_source of a generative answer
GenerativeOutcome(answer, verified) ==
    [response |-> answer, source |-> "gemini"]

\* Lines 989-998: the verifier runs on a non-empty gemini_answer (its own
\* except turns a failed query into False); otherwise the deflection.
Resolve ==
    /\ pc = "resolve"
    /\ IF GeminiAnswered(gemini_answer)
       THEN \E dbOk \in BOOLEAN :
              LET verified ==
                      /\ dbOk
                      /\ check_answer_from_curriculum(developer_files,
                             gemini_answer, req.gradeId, req.semesterId,
                             req.departmentId)
                  o == GenerativeOutcome(gemini_answer, verified)
              IN /\ is_from_curriculum' = verified
                 /\ response' = o.response
                 /\ response_source' = o.source
                 /\ trace' = Append(trace, "check_answer_from_curriculum")
       ELSE /\ response' = DeflectionMsg(DepartmentName(req.departmentId))
            /\ response_source' = "default"
            /\ UNCHANGED <<is_from_curriculum, trace>>
    /\ pc' = "record"
    /\ UNCHANGED <<stores, adminVars, workers, analysis,
                   conversations, req, book_answer, gemini_answer,
                   prompt, result, retryVars>>

(***************************************************************************)
(* File mode (lines 892-968) and the recording of the conversation.        *)
(***************************************************************************)
HandleFile ==
    /\ pc = "file"
    /\ LET file_id == req.file_id
           file_extension == FileExtension(file_id)
           kind == FileKind(file_extension)
       IN \E fsOk \in BOOLEAN :
          IF ~fsOk
          THEN \* except Exception of line 965
               /\ response' = FileErrorMsg
               /\ response_source' = "error"
               /\ pc' = "record"
               /\ UNCHANGED <<uploads, result, trace, analysis>>
          ELSE IF file_id \notin uploads
          THEN /\ Return(Failure("ERR_FILE_NOT_FOUND"))
               /\ UNCHANGED <<uploads, response, response_source, trace,
                              analysis>>
          ELSE IF ~FileAllowed(file_extension)
          THEN /\ Return(Failure("ERR_FILE_TYPE_NOT_ALLOWED"))
               /\ UNCHANGED <<uploads, response, response_source, trace,
                              analysis>>
          ELSE IF kind # "none"
          THEN \* the analyzers catch every exception, so the call returns
               \* and processing_success = True follows
               /\ \E io \in IoOutcomes, reply \in AnalysisReplies :
                    LET text == Analyze(kind, io,
                                        UserQuestion(Strip(req.message), kind),
                                        gemini_client, reply)
                    IN /\ response' = text
                       /\ analysis' = [kind |-> kind, io |-> io, text |-> text]
               /\ response_source' = "gemini_vision"
               /\ trace' = Append(trace, "analyze_" \o kind)
               \* if processing_success: os.remove, whose failure is only
               \* logged
               /\ \E removed \in BOOLEAN :
                    uploads' = IF removed THEN uploads \ {file_id} ELSE uploads
               /\ pc' = "record"
               /\ UNCHANGED result
          ELSE /\ Return(Failure("ERR_FILE_TYPE_UNSUPPORTED"))
               /\ UNCHANGED <<uploads, response, response_source, trace,
                              analysis>>
    /\ UNCHANGED <<book_qa, developer_files, gemini_client, conversations, req,
                   book_answer, gemini_answer, is_from_curriculum, prompt,
                   retryVars, workers, adminVars>>

\* a row that stores the question in place of the answer
ConversationRowEcho ==
    [username |-> Strip(req.username),
     user_message |-> Strip(req.message),
     bot_response |-> Strip(req.message),
     response_source |-> response_source]

\* the values of the INSERT INTO conversations (lines 1004-1011)
ConversationRow ==
    [username |-> Strip(req.username),
     user_message |-> Strip(req.message),
     bot_response |-> response,
     response_source |-> response_source]

\* Lines 1000-1032: the INSERT into conversations, then the success value; a
\* failed INSERT reaches the handler's except.
RecordConversation ==
    /\ pc = "record"
    /\ \E dbOk \in BOOLEAN :
        IF dbOk
        THEN /\ conversations' = Append(conversations, ConversationRow)
             /\ Return(Success(response, response_source))
        ELSE /\ Return(ChatHandlerExcept("sqlite3.Error"))
             /\ UNCHANGED conversations
    /\ UNCHANGED <<stores, adminVars, workers, analysis,
                   chatVars, retryVars, trace>>

Next ==
    \/ HandleChatBegin
    \/ SearchBook
    \/ GetGeminiResponse
    \/ RetryTry
    \/ RetryExcept
    \/ Resolve
    \/ HandleFile
    \/ RecordConversation

Spec == Init /\ [][Next]_vars

(***************************************************************************)
(* search_in_book on its own: one call, with the table, the question and   *)
(* the context drawn from the sets below.                                  *)
(***************************************************************************)
QaLiteral ==
    [grade_id |-> "1", semester_id |-> "1", department_id |-> "2",
     question |-> <<"a","_">>, answer |-> <<"x","4">>, keywords |-> NoneText]

SearchTables ==
    { <<>>,
      <<QaSubstring, QaExact, QaOtherDept>>,
      <<QaExact, QaSubstring, QaOtherDept>>,
      <<QaLiteral, QaSubstring, QaExact, QaOtherDept>> }

SearchQuestions ==
    { <<" ","A"," ">>, <<"c">>, <<"K">>, <<"z">>, <<"_">>, <<"a","_">> }

InitSearch ==
    /\ book_qa \in SearchTables
    /\ developer_files = <<>>
    /\ uploads = {}
    /\ conversations = <<>>
    /\ gemini_client = FALSE
    /\ pc = "call"
    /\ req = NoRequest
    /\ book_answer = NoneText
    /\ gemini_answer = NoneText
    /\ is_from_curriculum = FALSE
    /\ prompt = NoPrompt
    /\ response = NoneText
    /\ response_source = None
    /\ result = NoResult
    /\ attempt = 0
    /\ retry_delay = InitialRetryDelay * Scale
    /\ clock = 0
    /\ exc = NoneText
    /\ retry_state = "idle"
    /\ sleeps = <<>>
    /\ nCalls = 0
    /\ nTransientRaised = 0
    /\ timeout_seen = FALSE
    /\ trace = <<>>
    /\ analysis = NoAnalysis
    /\ workers = <<>>
    /\ AdminIdle

\* search_in_book(question, grade_id, semester_id, department_id): the two
\* queries, or the except of line 502 (exc records the exception caught)
CallSearchInBook ==
    /\ pc = "call"
    /\ \E question \in SearchQuestions, grade_id \in GradeIds,
          semester_id \in SemesterIds, department_id \in DepartmentIds,
          dbOk \in BOOLEAN :
        /\ req' = [NoRequest EXCEPT !.message = question,
                                    !.gradeId = grade_id,
                                    !.semesterId = semester_id,
                                    !.departmentId = department_id]
        /\ exc' = IF dbOk THEN NoneText ELSE <<"sqlite3.Error">>
        /\ book_answer' \in (IF dbOk
                             THEN SearchInBook(book_qa, question, grade_id,
                                               semester_id, department_id)
                             ELSE {NoneText})
    /\ trace' = Append(trace, "search_in_book")
    /\ pc' = "returned"
    /\ UNCHANGED <<stores, adminVars, workers, analysis,
                   conversations, gemini_answer,
                   is_from_curriculum, prompt, response, response_source,
                   result, attempt, retry_delay, clock, retry_state, sleeps,
                   nCalls, nTransientRaised, timeout_seen>>

NextSearch == CallSearchInBook

SpecSearch == InitSearch /\ [][NextSearch]_vars

(***************************************************************************)
(* Two concurrent requests on the same uploaded file.  Each request is a   *)
(* file-mode handle_chat ("chat") or an analyze_user_media ("media"); its  *)
(* steps are the existence test, the analyzer call and the os.remove, and  *)
(* the steps of the two requests interleave freely, the server handling    *)
(* each request in its own thread without any lock.                        *)
(***************************************************************************)
SharedFile == "pic.PNG"
WorkerIds == {1, 2}
WorkerKinds == {"chat", "media"}

NewWorker(endpoint) ==
    [endpoint |-> endpoint, pc |-> "start", text |-> NoneText,
     missing |-> FALSE, error |-> None]

\* what reading the file may produce: an absent file raises
ReadOutcomes(present) ==
    IF present THEN IoOutcomes ELSE {[raised |-> TRUE, text |-> ErrIo]}

InitConcurrent ==
    /\ book_qa = <<>>
    /\ developer_files = <<>>
    /\ uploads = {SharedFile}
    /\ conversations = <<>>
    /\ gemini_client \in BOOLEAN
    /\ pc = "concurrent"
    /\ req = NoRequest
    /\ book_answer = NoneText
    /\ gemini_answer = NoneText
    /\ is_from_curriculum = FALSE
    /\ prompt = NoPrompt
    /\ response = NoneText
    /\ response_source = None
    /\ result = NoResult
    /\ attempt = 0
    /\ retry_delay = InitialRetryDelay * Scale
    /\ clock = 0
    /\ exc = NoneText
    /\ retry_state = "idle"
    /\ sleeps = <<>>
    /\ nCalls = 0
    /\ nTransientRaised = 0
    /\ timeout_seen = FALSE
    /\ trace = <<>>
    /\ analysis = NoAnalysis
    /\ workers \in [WorkerIds -> {NewWorker(k) : k \in WorkerKinds}]
    /\ AdminIdle

concurrentUnchanged ==
    <<book_qa, developer_files, gemini_client, conversations, pc, chatVars,
      result, retryVars, trace, analysis, adminVars>>

\* if not os.path.exists(file_path): return ... (app.py 910-911, 1927-1928)
WorkerExists(w) ==
    /\ workers[w].pc = "start"
    /\ workers' = [workers EXCEPT ![w] =
            IF SharedFile \in uploads
            THEN [@ EXCEPT !.pc = "checked"]
            ELSE [@ EXCEPT !.pc = "done", !.error = "ERR_FILE_NOT_FOUND"]]
    /\ UNCHANGED uploads
    /\ UNCHANGED concurrentUnchanged

\* the analyzer call (app.py 923, 1935): it opens the file by its path
WorkerAnalyze(w) ==
    /\ workers[w].pc = "checked"
    /\ \E io \in ReadOutcomes(SharedFile \in uploads),
          reply \in AnalysisReplies :
        LET kind == FileKind(FileExtension(SharedFile))
            user_question ==
                IF workers[w].endpoint = "chat"
                THEN UserQuestion(<<>>, kind) ELSE <<>>
        IN workers' = [workers EXCEPT ![w] =
              [@ EXCEPT !.pc = "analyzed",
                        !.text = Analyze(kind, io, user_question,
                                         gemini_client, reply),
                        !.missing = SharedFile \notin uploads]]
    /\ UNCHANGED uploads
    /\ UNCHANGED concurrentUnchanged

\* os.remove(file_path) after the analyzer returned (app.py 955-963,
\* 1946-1950); a failed removal is logged or ignored
WorkerRemove(w) ==
    /\ workers[w].pc = "analyzed"
    /\ \E removed \in BOOLEAN :
        uploads' = IF removed THEN uploads \ {SharedFile} ELSE uploads
    /\ workers' = [workers EXCEPT ![w] = [@ EXCEPT !.pc = "done"]]
    /\ UNCHANGED concurrentUnchanged

NextConcurrent ==
    \E w \in WorkerIds : WorkerExists(w) \/ WorkerAnalyze(w) \/ WorkerRemove(w)

SpecConcurrent == InitConcurrent /\ [][NextConcurrent]_vars

(***************************************************************************)
(* The backoff of gemini_with_retry on its own: func raises a transient    *)
(* error at every call, and max_retries is large enough for the base delay *)
(* to reach its cap.                                                       *)
(***************************************************************************)
BackoffRetries == 8
BackoffJitters == {0, 4, MaxJitterNum}

InitBackoff ==
    /\ book_qa = <<>>
    /\ developer_files = <<>>
    /\ uploads = {}
    /\ conversations = <<>>
    /\ gemini_client = TRUE
    /\ pc = "backoff"
    /\ req = NoRequest
    /\ book_answer = NoneText
    /\ gemini_answer = NoneText
    /\ is_from_curriculum = FALSE
    /\ prompt = NoPrompt
    /\ response = NoneText
    /\ response_source = None
    /\ result = NoResult
    /\ attempt = 0
    /\ retry_delay = InitialRetryDelay * Scale
    /\ clock = 0
    /\ exc = Err503
    /\ retry_state = "running"
    /\ sleeps = <<>>
    /\ nCalls = 0
    /\ nTransientRaised = 0
    /\ timeout_seen = FALSE
    /\ trace = <<>>
    /\ analysis = NoAnalysis
    /\ workers = <<>>
    /\ AdminIdle

\* lines 59-67 of one iteration that caught a transient error
BackoffStep ==
    /\ pc = "backoff"
    /\ IsTransient(exc)
    /\ IF attempt = BackoffRetries - 1
       THEN /\ retry_state' = "raised"
            /\ pc' = "raised"
            /\ UNCHANGED <<sleeps, retry_delay, attempt>>
       ELSE /\ \E jitter \in BackoffJitters :
                sleeps' = Append(sleeps, SleepTime(retry_delay, jitter))
            /\ retry_delay' = NextRetryDelay(retry_delay)
            /\ attempt' = attempt + 1
            /\ UNCHANGED <<retry_state, pc>>
    /\ UNCHANGED <<stores, adminVars, workers, analysis,
                   conversations, req, book_answer,
                   gemini_answer, is_from_curriculum, prompt, response,
                   response_source, result, clock, exc, nCalls,
                   nTransientRaised, timeout_seen, trace>>

NextBackoff == BackoffStep

SpecBackoff == InitBackoff /\ [][NextBackoff]_vars

(***************************************************************************)
(* check_answer_from_curriculum on its own: one call, with the documents,  *)
(* the answer and the context drawn from the sets below.                   *)
(***************************************************************************)
RECURSIVE Repeat(_, _)
Repeat(s, n) == IF n = 0 THEN <<>> ELSE s \o Repeat(s, n - 1)

DocSeven == DocSix \o <<" ", "w7">>
DocTwoToSeven == <<"w2"," ","w3"," ","w4"," ","w5"," ","w6"," ","w7">>
FileSeven == [FileSix EXCEPT !.content = DocSeven]
FileTwoToSeven == [FileSix EXCEPT !.content = DocTwoToSeven]
FileDeleted == [FileSix EXCEPT !.status = "deleted"]

VerifyTables ==
    { <<>>, <<FileSix>>, <<FileDeleted>>, <<FileSeven>>,
      <<FileSix, FileTwoToSeven>> }

\* one sentence of seventeen words: fourteen phrases, the first two of them
\* made of w1..w7 only
SparseText == DocSeven \o Repeat(<<" ", "w8">>, 10)
\* 909 characters in sentences of one word: no phrase at all
LongText == Repeat(<<LongWord, ".">>, 9)
RefusalGrounded == GroundedText \o <<" ", "GHAYR_MAWJUD">>
LongRefusal == LongText \o <<" ", "UDHRAN">>
LongGrounded == GroundedText \o LongText

\* one word of 800 characters, and the same with one character more
AtThreshold == Repeat(<<LongWord>>, 8)
OverThreshold == AtThreshold \o <<".">>
\* 801 characters raw, 800 once stripped
PaddedThreshold == <<" ">> \o AtThreshold
\* 828 characters with phrases, none of them in a document
LongUngrounded == UngroundedText \o <<" ">> \o AtThreshold

VerifyAnswers ==
    { GroundedText, UngroundedText, RefusalText, RefusalGrounded, SparseText,
      LongText, LongRefusal, LongGrounded, AtThreshold, OverThreshold,
      PaddedThreshold, LongUngrounded, <<>>, NoneText }

InitVerify ==
    /\ book_qa = <<>>
    /\ developer_files \in VerifyTables
    /\ uploads = {}
    /\ conversations = <<>>
    /\ gemini_client = FALSE
    /\ pc = "call"
    /\ req = NoRequest
    /\ book_answer = NoneText
    /\ gemini_answer = NoneText
    /\ is_from_curriculum = FALSE
    /\ prompt = NoPrompt
    /\ response = NoneText
    /\ response_source = None
    /\ result = NoResult
    /\ attempt = 0
    /\ retry_delay = InitialRetryDelay * Scale
    /\ clock = 0
    /\ exc = NoneText
    /\ retry_state = "idle"
    /\ sleeps = <<>>
    /\ nCalls = 0
    /\ nTransientRaised = 0
    /\ timeout_seen = FALSE
    /\ trace = <<>>
    /\ analysis = NoAnalysis
    /\ workers = <<>>
    /\ AdminIdle

\* check_answer_from_curriculum(gemini_answer, grade_id, semester_id,
\* department_id): the audit, or the except of line 676 (exc records the
\* exception caught)
CallCheckAnswer ==
    /\ pc = "call"
    /\ \E answer \in VerifyAnswers, grade_id \in GradeIds,
          semester_id \in SemesterIds, department_id \in DepartmentIds,
          dbOk \in BOOLEAN :
        /\ req' = [NoRequest EXCEPT !.gradeId = grade_id,
                                    !.semesterId = semester_id,
                                    !.departmentId = department_id]
        /\ gemini_answer' = answer
        /\ exc' = IF dbOk \/ ~Truthy(answer) THEN NoneText
                  ELSE <<"sqlite3.Error">>
        /\ is_from_curriculum' =
              IF dbOk \/ ~Truthy(answer)
              THEN check_answer_from_curriculum(developer_files, answer,
                       grade_id, semester_id, department_id)
              ELSE FALSE
    /\ trace' = Append(trace, "check_answer_from_curriculum")
    /\ pc' = "returned"
    /\ UNCHANGED <<stores, adminVars, workers, analysis,
                   conversations, book_answer, prompt,
                   response, response_source, result, attempt, retry_delay,
                   clock, retry_state, sleeps, nCalls, nTransientRaised,
                   timeout_seen>>

NextVerify == CallCheckAnswer

SpecVerify == InitVerify /\ [][NextVerify]_vars

(***************************************************************************)
(* The administrative API of api_handler: admin_login, admin_logout,       *)
(* validate_admin_session and the operations that begin with the session   *)
(* check.  Every request is answered in one step; pc stays "api".          *)
(***************************************************************************)
MaxRequests == 4
MaxRows == 2
MaxFiles == 2
MaxNow == 1803
TickSizes == {900, 901}
Names == {"", "A", "B"}

\* 'غير مصرح لك بهذه العملية'
Unauthorized == "ERR_UNAUTHORIZED"
AdminDone == Success(NoneText, None)

IdIndex(id) == CHOOSE i \in 1..Len(IdOrder) : IdOrder[i] = id
HasRow(table, id) ==
    \E i \in 1..Len(table) : RowId(i) = id /\ table[i].name # None
ActiveRow(table, id) ==
    \E i \in 1..Len(table) : RowId(i) = id /\ table[i].is_active
NameTaken(table, name) == \E i \in 1..Len(table) : table[i].name = name

\* time.time() - login_time > ADMIN_SESSION_TIMEOUT
SessionExpired ==
    /\ session.admin_session_id # None
    /\ session.admin_login_time # NoTime
    /\ now - session.admin_login_time > ADMIN_SESSION_TIMEOUT

\* the session as check_admin_session leaves it: an expired one is popped
SessionChecked == IF SessionExpired THEN NoSession ELSE session

\* check_admin_session(); dbOk is FALSE when the SELECT raises
check_admin_session(dbOk) ==
    [is_admin |->
        /\ session.admin_session_id # None
        /\ session.admin_login_time # NoTime
        /\ ~SessionExpired
        /\ dbOk
        /\ \E i \in 1..Len(admin_sessions) :
              /\ admin_sessions[i].id = session.admin_session_id
              /\ admin_sessions[i].is_active]

ApiReady == pc = "api" /\ served < MaxRequests

\* jsonify(<handler>()), 200
Answer(action, value) ==
    /\ result' = value
    /\ trace' = <<action>>
    /\ served' = served + 1

apiFrame ==
    <<book_qa, uploads, gemini_client, conversations, pc, retryVars, analysis,
      workers, response, response_source, book_answer>>
groundingVars == <<req, gemini_answer, is_from_curriculum, prompt>>

\* the passing of time between two requests
Tick ==
    /\ pc = "api"
    /\ \E d \in TickSizes :
        /\ now + d <= MaxNow
        /\ now' = now + d
    /\ UNCHANGED <<apiFrame, groundingVars, developer_files, session,
                   admin_sessions, grades, semesters, departments, authority,
                   unlinked, served, result, trace>>

\* Lines 1666-1695
AdminLogin ==
    /\ ApiReady
    /\ Len(admin_sessions) < MaxRows
    /\ \E passwordOk, dbOk \in BOOLEAN :
        IF ~passwordOk
        THEN /\ Answer("admin_login", Failure("ERR_WRONG_PASSWORD"))
             /\ UNCHANGED <<session, admin_sessions, authority>>
        ELSE LET session_id == RowId(Len(admin_sessions) + 1)
             IN /\ session' = [admin_session_id |-> session_id,
                               admin_login_time |-> now]
                /\ IF dbOk
                   THEN /\ admin_sessions' =
                              Append(admin_sessions,
                                     [id |-> session_id, is_active |-> TRUE])
                        /\ authority' = [login_time |-> now,
                                         logged_out |-> FALSE]
                        /\ Answer("admin_login", AdminDone)
                   ELSE /\ Answer("admin_login", Failure("ERR_LOGIN"))
                        /\ UNCHANGED <<admin_sessions, authority>>
    /\ UNCHANGED <<apiFrame, groundingVars, developer_files, grades, semesters,
                   departments, now, unlinked>>

\* Lines 1697-1716: the session keys are popped after the UPDATE, so an
\* UPDATE that raises leaves them in place.
AdminLogout ==
    /\ ApiReady
    /\ \E dbOk \in BOOLEAN :
        LET session_id == session.admin_session_id
        IN IF session_id # None /\ ~dbOk
           THEN /\ Answer("admin_logout", Failure("ERR_LOGOUT"))
                /\ UNCHANGED <<session, admin_sessions>>
           ELSE /\ admin_sessions' =
                      [i \in 1..Len(admin_sessions) |->
                          IF admin_sessions[i].id = session_id
                          THEN [admin_sessions[i] EXCEPT !.is_active = FALSE]
                          ELSE admin_sessions[i]]
                /\ session' = NoSession
                /\ Answer("admin_logout", AdminDone)
    /\ authority' = [authority EXCEPT !.logged_out = TRUE]
    /\ UNCHANGED <<apiFrame, groundingVars, developer_files, grades, semesters,
                   departments, now, unlinked>>

\* Lines 1718-1747, reached through action validate_admin_session
ValidateAdminSession ==
    /\ ApiReady
    /\ \E dbOk \in BOOLEAN :
        Answer("validate_admin_session", check_admin_session(dbOk))
    /\ session' = SessionChecked
    /\ UNCHANGED <<apiFrame, groundingVars, developer_files, admin_sessions,
                   grades, semesters, departments, now, authority, unlinked>>

\* INSERT INTO <table> (name, description): the name is required and UNIQUE
AddOutcome(table, row, dbOk, failure) ==
    IF row.name = ""
    THEN [rows |-> table, value |-> Failure("ERR_NAME_REQUIRED")]
    ELSE IF ~dbOk THEN [rows |-> table, value |-> Failure(failure)]
    ELSE IF NameTaken(table, row.name)
    THEN [rows |-> table, value |-> Failure("ERR_NAME_EXISTS")]
    ELSE [rows |-> Append(table, row), value |-> AdminDone]

\* UPDATE <table> SET is_active = 0 WHERE id = ?
DeleteOutcome(table, id, dbOk, failure) ==
    IF id = None
    THEN [rows |-> table, value |-> Failure("ERR_ID_REQUIRED")]
    ELSE IF ~dbOk THEN [rows |-> table, value |-> Failure(failure)]
    ELSE [rows |-> [i \in 1..Len(table) |->
                       IF RowId(i) = id
                       THEN [table[i] EXCEPT !.is_active = FALSE]
                       ELSE table[i]],
          value |-> AdminDone]

\* Lines 1035-1062
AddGrade ==
    /\ ApiReady
    /\ Len(grades) < MaxRows
    /\ \E checkOk, dbOk \in BOOLEAN, name \in Names :
        IF ~check_admin_session(checkOk).is_admin
        THEN /\ Answer("add_grade", Failure(Unauthorized))
             /\ UNCHANGED grades
        ELSE LET out == AddOutcome(grades,
                                   [name |-> name, is_active |-> TRUE],
                                   dbOk, "ERR_ADD_GRADE")
             IN /\ grades' = out.rows
                /\ Answer("add_grade", out.value)
    /\ session' = SessionChecked
    /\ UNCHANGED <<apiFrame, groundingVars, developer_files, admin_sessions,
                   semesters, departments, now, authority, unlinked>>

\* Lines 1064-1086
DeleteGrade ==
    /\ ApiReady
    /\ \E checkOk, dbOk \in BOOLEAN, id \in {None, "1", "2"} :
        IF ~check_admin_session(checkOk).is_admin
        THEN /\ Answer("delete_grade", Failure(Unauthorized))
             /\ UNCHANGED grades
        ELSE LET out == DeleteOutcome(grades, id, dbOk, "ERR_DELETE_GRADE")
             IN /\ grades' = out.rows
                /\ Answer("delete_grade", out.value)
    /\ session' = SessionChecked
    /\ UNCHANGED <<apiFrame, groundingVars, developer_files, admin_sessions,
                   semesters, departments, now, authority, unlinked>>

\* Lines 1088-1115
AddSemester ==
    /\ ApiReady
    /\ Len(semesters) < MaxRows
    /\ \E checkOk, dbOk \in BOOLEAN, name \in Names :
        IF ~check_admin_session(checkOk).is_admin
        THEN /\ Answer("add_semester", Failure(Unauthorized))
             /\ UNCHANGED semesters
        ELSE LET out == AddOutcome(semesters,
                                   [name |-> name, is_active |-> TRUE],
                                   dbOk, "ERR_ADD_SEMESTER")
             IN /\ semesters' = out.rows
                /\ Answer("add_semester", out.value)
    /\ session' = SessionChecked
    /\ UNCHANGED <<apiFrame, groundingVars, developer_files, admin_sessions,
                   grades, departments, now, authority, unlinked>>

\* Lines 1117-1139
DeleteSemester ==
    /\ ApiReady
    /\ \E checkOk, dbOk \in BOOLEAN, id \in {None, "1", "2"} :
        IF ~check_admin_session(checkOk).is_admin
        THEN /\ Answer("delete_semester", Failure(Unauthorized))
             /\ UNCHANGED semesters
        ELSE LET out == DeleteOutcome(semesters, id, dbOk,
                                      "ERR_DELETE_SEMESTER")
             IN /\ semesters' = out.rows
                /\ Answer("delete_semester", out.value)
    /\ session' = SessionChecked
    /\ UNCHANGED <<apiFrame, groundingVars, developer_files, admin_sessions,
                   grades, departments, now, authority, unlinked>>

\* Lines 1141-1181: the new department is linked to every active grade
AddDepartment ==
    /\ ApiReady
    /\ Len(departments) < MaxRows
    /\ \E checkOk, dbOk \in BOOLEAN, name \in Names :
        IF ~check_admin_session(checkOk).is_admin
        THEN /\ Answer("add_department", Failure(Unauthorized))
             /\ UNCHANGED departments
        ELSE LET row == [name |-> name, is_active |-> TRUE,
                         grades |-> {RowId(i) : i \in
                                       {j \in 1..Len(grades) :
                                           grades[j].is_active}}]
                 out == AddOutcome(departments, row, dbOk,
                                   "ERR_ADD_DEPARTMENT")
             IN /\ departments' = out.rows
                /\ Answer("add_department", out.value)
    /\ session' = SessionChecked
    /\ UNCHANGED <<apiFrame, groundingVars, developer_files, admin_sessions,
                   grades, semesters, now, authority, unlinked>>

\* a row of departments after DELETE FROM departments WHERE id = ?
NoRow == [name |-> None, is_active |-> FALSE, grades |-> {}]

\* Lines 1233-1268: the links of file_departments and department_grades go
\* with the row; a missing row (rowcount 0) returns before the commit.
DeleteDepartment ==
    /\ ApiReady
    /\ \E checkOk, dbOk \in BOOLEAN, id \in {None, "1", "2"} :
        IF ~check_admin_session(checkOk).is_admin
        THEN /\ Answer("delete_department", Failure(Unauthorized))
             /\ UNCHANGED <<departments, developer_files>>
        ELSE IF id = None
        THEN /\ Answer("delete_department", Failure("ERR_ID_REQUIRED"))
             /\ UNCHANGED <<departments, developer_files>>
        ELSE IF ~dbOk
        THEN /\ Answer("delete_department", Failure("ERR_DELETE_DEPARTMENT"))
             /\ UNCHANGED <<departments, developer_files>>
        ELSE IF ~HasRow(departments, id)
        THEN /\ Answer("delete_department", Failure("ERR_NO_DEPARTMENT"))
             /\ UNCHANGED <<departments, developer_files>>
        ELSE /\ departments' = [departments EXCEPT ![IdIndex(id)] = NoRow]
             /\ developer_files' =
                   [i \in 1..Len(developer_files) |->
                       [developer_files[i] EXCEPT !.departments = @ \ {id}]]
             /\ Answer("delete_department", AdminDone)
    /\ session' = SessionChecked
    /\ UNCHANGED <<apiFrame, groundingVars, admin_sessions, grades, semesters,
                   now, authority, unlinked>>

\* what read/extract_text_from_pdf/extract_text_from_docx gave for the file
UploadContents == {DocSix, <<>>}
UploadDepartments == {{}, {"1"}, {"1", "2"}}

\* Lines 1427-1544
UploadDeveloperFile ==
    /\ ApiReady
    /\ Len(developer_files) < MaxFiles
    /\ \E checkOk, fileOk, dbOk \in BOOLEAN, grade_id \in {None, "1"},
          semester_id \in {"1"}, department_ids \in UploadDepartments,
          content \in UploadContents :
        IF ~check_admin_session(checkOk).is_admin
        THEN /\ Answer("upload_developer_file", Failure(Unauthorized))
             /\ UNCHANGED developer_files
        ELSE IF ~fileOk
        THEN /\ Answer("upload_developer_file", Failure("ERR_NO_FILE"))
             /\ UNCHANGED developer_files
        ELSE IF grade_id = None \/ semester_id = None \/ department_ids = {}
        THEN /\ Answer("upload_developer_file", Failure("ERR_SCOPE_REQUIRED"))
             /\ UNCHANGED developer_files
        ELSE IF \/ ~ActiveRow(grades, grade_id)
                \/ ~ActiveRow(semesters, semester_id)
                \/ \E d \in department_ids : ~ActiveRow(departments, d)
        THEN /\ Answer("upload_developer_file", Failure("ERR_SCOPE_MISSING"))
             /\ UNCHANGED developer_files
        ELSE IF ~dbOk
        THEN /\ Answer("upload_developer_file", Failure("ERR_UPLOAD"))
             /\ UNCHANGED developer_files
        ELSE /\ developer_files' =
                   Append(developer_files,
                          [content |-> content, grade_id |-> grade_id,
                           semester_id |-> semester_id,
                           departments |-> department_ids,
                           status |-> "active"])
             /\ Answer("upload_developer_file", AdminDone)
    /\ session' = SessionChecked
    /\ UNCHANGED <<apiFrame, groundingVars, admin_sessions, grades, semesters,
                   departments, now, authority, unlinked>>

\* a deletion that leaves the row as it was
DeletedRowKept(f) == f

\* UPDATE developer_files SET status = 'deleted' and
\* DELETE FROM file_departments WHERE file_id = ? (lines 1642, 1646)
DeletedRow(f) == [f EXCEPT !.status = "deleted", !.departments = {}]

\* Lines 1610-1664
DeleteDeveloperFile ==
    /\ ApiReady
    /\ \E checkOk, dbOk \in BOOLEAN, file_id \in {None, "x", "1", "2"} :
        IF ~check_admin_session(checkOk).is_admin
        THEN /\ Answer("delete_developer_file", Failure(Unauthorized))
             /\ UNCHANGED <<developer_files, unlinked>>
        ELSE IF file_id = None
        THEN /\ Answer("delete_developer_file", Failure("ERR_ID_REQUIRED"))
             /\ UNCHANGED <<developer_files, unlinked>>
        ELSE IF file_id = "x"
        THEN /\ Answer("delete_developer_file", Failure("ERR_ID_INVALID"))
             /\ UNCHANGED <<developer_files, unlinked>>
        ELSE IF ~dbOk
        THEN /\ Answer("delete_developer_file", Failure("ERR_DELETE_FILE"))
             /\ UNCHANGED <<developer_files, unlinked>>
        ELSE IF \/ IdIndex(file_id) > Len(developer_files)
                \/ developer_files[IdIndex(file_id)].status # "active"
        THEN /\ Answer("delete_developer_file", Failure("ERR_NO_FILE"))
             /\ UNCHANGED <<developer_files, unlinked>>
        ELSE LET f == developer_files[IdIndex(file_id)]
             IN /\ developer_files' =
                      [developer_files EXCEPT ![IdIndex(file_id)] =
                          DeletedRow(f)]
                /\ unlinked' = unlinked \cup
                      {[file_id |-> file_id, grade_id |-> f.grade_id,
                        semester_id |-> f.semester_id, department_id |-> d] :
                          d \in f.departments}
                /\ Answer("delete_developer_file", AdminDone)
    /\ session' = SessionChecked
    /\ UNCHANGED <<apiFrame, groundingVars, admin_sessions, grades, semesters,
                   departments, now, authority>>

\* response.text for the question asked
GroundingAnswers == {GroundedText, LongGrounded}

\* The two reads of developer_files made for a question that the knowledge
\* base did not answer: the query of get_gemini_response (lines 521-553) and
\* the audit of the reply by check_answer_from_curriculum (lines 597-678).
GroundQuestion ==
    /\ ApiReady
    /\ \E grade_id \in GradeIds, semester_id \in SemesterIds,
          department_id \in DepartmentIds, promptOk, auditOk \in BOOLEAN,
          answer \in GroundingAnswers :
        /\ req' = [NoRequest EXCEPT !.gradeId = grade_id,
                                    !.semesterId = semester_id,
                                    !.departmentId = department_id]
        /\ prompt' = BuiltPrompt(
                         IF promptOk
                         THEN CurriculumParts(developer_files, grade_id,
                                              semester_id, department_id)
                         ELSE <<>>,
                         <<>>)
        /\ gemini_answer' = answer
        /\ is_from_curriculum' =
              IF auditOk
              THEN check_answer_from_curriculum(developer_files, answer,
                       grade_id, semester_id, department_id)
              ELSE FALSE
    /\ trace' = <<"get_gemini_response", "check_answer_from_curriculum">>
    /\ served' = served + 1
    /\ UNCHANGED <<apiFrame, developer_files, session, admin_sessions, grades,
                   semesters, departments, now, authority, unlinked, result>>

InitApi ==
    /\ book_qa = <<>>
    /\ uploads = {}
    /\ conversations = <<>>
    /\ gemini_client = TRUE
    /\ pc = "api"
    /\ req = NoRequest
    /\ book_answer = NoneText
    /\ gemini_answer = NoneText
    /\ is_from_curriculum = FALSE
    /\ prompt = NoPrompt
    /\ response = NoneText
    /\ response_source = None
    /\ result = NoResult
    /\ attempt = 0
    /\ retry_delay = InitialRetryDelay * Scale
    /\ clock = 0
    /\ exc = NoneText
    /\ retry_state = "idle"
    /\ sleeps = <<>>
    /\ nCalls = 0
    /\ nTransientRaised = 0
    /\ timeout_seen = FALSE
    /\ trace = <<>>
    /\ analysis = NoAnalysis
    /\ workers = <<>>
    /\ grades = <<DefaultRow>>
    /\ semesters = <<DefaultRow>>
    /\ now = StartTime
    /\ unlinked = {}
    /\ served = 0

DepartmentOne == [name |-> "A", is_active |-> TRUE, grades |-> {"1"}]
DepartmentTwo == [name |-> "B", is_active |-> TRUE, grades |-> {"1"}]

\* nobody is logged in; one department and at most one document exist
InitAdmin ==
    /\ InitApi
    /\ developer_files \in FileTables
    /\ departments = <<DepartmentOne>>
    /\ session = NoSession
    /\ admin_sessions = <<>>
    /\ authority = NoAuthority

NextAdmin ==
    \/ Tick
    \/ AdminLogin
    \/ AdminLogout
    \/ ValidateAdminSession
    \/ AddGrade
    \/ DeleteGrade
    \/ AddSemester
    \/ DeleteSemester
    \/ AddDepartment
    \/ DeleteDepartment
    \/ UploadDeveloperFile
    \/ DeleteDeveloperFile

SpecAdmin == InitAdmin /\ [][NextAdmin]_vars

\* the administrator is logged in; two departments exist
InitCurriculum ==
    /\ InitApi
    /\ developer_files \in FileTables
    /\ departments = <<DepartmentOne, DepartmentTwo>>
    /\ session = [admin_session_id |-> "1", admin_login_time |-> StartTime]
    /\ admin_sessions = <<[id |-> "1", is_active |-> TRUE]>>
    /\ authority = [login_time |-> StartTime, logged_out |-> FALSE]

NextCurriculum ==
    \/ UploadDeveloperFile
    \/ DeleteDeveloperFile
    \/ DeleteDepartment
    \/ GroundQuestion

SpecCurriculum == InitCurriculum /\ [][NextCurriculum]_vars

(***************************************************************************)
(* Grounding on its own: one question against a table of documents drawn   *)
(* from the set below.                                                     *)
(***************************************************************************)
\* 100,002 characters
DocOver == <<HugeWord, HugeWord, "x", "y">>
\* 100,000 characters
DocAtCeiling == <<HugeWord, HugeWord>>
FileOver == [FileSix EXCEPT !.content = DocOver]
FileAtCeiling == [FileSix EXCEPT !.content = DocAtCeiling]
FileBothDepartments == [FileSeven EXCEPT !.departments = {"1", "2"}]

GroundingTables ==
    { <<>>, <<FileSix>>, <<FileAtCeiling>>,
      <<FileOver, FileSix, FileOver, FileSeven>>,
      <<FileDeleted, FileBothDepartments, FileOver, FileSix, FileTwoToSeven>> }

InitGrounding ==
    /\ InitApi
    /\ developer_files \in GroundingTables
    /\ departments = <<DepartmentOne, DepartmentTwo>>
    /\ session = NoSession
    /\ admin_sessions = <<>>
    /\ authority = NoAuthority

NextGrounding == GroundQuestion

SpecGrounding == InitGrounding /\ [][NextGrounding]_vars

(***************************************************************************)
(* Properties.                                                             *)
(***************************************************************************)
Provenances == {"book", "gemini", "cancelled", "gemini_vision", "error", "default"}

\* the branch handle_chat takes for the request
ConfirmationPair == Truthy(req.confirm_answer) /\ Truthy(req.pending_answer)
QuestionMode == ~ConfirmationPair /\ req.file_id = NoFile
Resolved == pc = "record" \/ (pc = "done" /\ result.success)
Invoked(name) == \E i \in 1..Len(trace) : trace[i] = name

\* C1: in question mode an answer returned by search_in_book is the response,
\* tagged 'book', and neither generate_content nor the verifier is invoked;
\* generate_content is only ever invoked after search_in_book ran and returned
\* no answer.
C1_KnowledgeBaseFirst ==
    /\ (Resolved /\ QuestionMode /\ Truthy(book_answer)) =>
          /\ response = book_answer
          /\ response_source = "book"
          /\ trace = <<"search_in_book">>
          /\ (pc = "done" =>
                 result.response = book_answer /\ result.source = "book")
    /\ \A i \in 1..Len(trace) :
          (QuestionMode /\ trace[i] = "generate_content") =>
              /\ i > 1
              /\ trace[1] = "search_in_book"
              /\ ~Truthy(book_answer)

C1_Witness ==
    /\ pc = "done" /\ QuestionMode
    /\ Truthy(book_answer)
    /\ result.success /\ result.source = "book"

\* C2: when the generative call fails, the response is a fixed apology tagged
\* with the deflection provenance 'default' (not the generative one), and the
\* error does not leave handle_chat.
C2_FailureIsDeflection ==
    (Resolved /\ QuestionMode /\ retry_state = "raised") =>
        /\ response_source = "default"
        /\ response \in {GeminiErrorMsg, DeflectionMsg(DepartmentName(req.departmentId))}
        /\ ~result.raised

\* C3: the provenance of a returned generative text is 'gemini' when the
\* verifier returned true and a different value when it returned false.
C3_ProvenanceFollowsVerifier ==
    (Resolved /\ retry_state = "returned" /\ Truthy(gemini_answer)) =>
        /\ is_from_curriculum => response_source = "gemini"
        /\ ~is_from_curriculum =>
              response_source \notin {"gemini", "book", "default", "cancelled"}

\* C4: the text delivered for a returned generative text is that text,
\* whatever the verifier returned.
C4_VerifierObservational ==
    (Resolved /\ retry_state = "returned" /\ Truthy(gemini_answer)) =>
        /\ Invoked("check_answer_from_curriculum")
        /\ response = gemini_answer
        /\ (pc = "done" => result.response = gemini_answer)

C4_Witness ==
    /\ pc = "done" /\ result.success
    /\ retry_state = "returned" /\ Truthy(gemini_answer)
    /\ ~is_from_curriculum
    /\ Len(developer_files) > 0
    /\ result.response = gemini_answer

\* a request that passes handle_chat's own validation
ValidRequest ==
    /\ Strip(req.username) # <<>>
    /\ (Strip(req.message) # <<>> \/ req.file_id # NoFile)
    /\ (req.file_id # NoFile /\ ~ConfirmationPair =>
           /\ req.file_id \in uploads \/ analysis.kind # "none"
           /\ FileExtension(req.file_id) \in ALLOWED_EXTENSIONS)

\* C5 as stated: handle_chat never raises and always returns an answer text
\* with a provenance tag, whatever collaborator fails.
C5_AlwaysResolved ==
    (pc = "done" /\ ValidRequest) =>
        /\ ~result.raised
        /\ result.success
        /\ result.response # NoneText
        /\ result.source \in Provenances

\* C5 amended: handle_chat never raises; it returns either the response with
\* its provenance tag, or an error value carrying a fixed message and no
\* answer.
C5_NeverRaises ==
    pc = "done" =>
        /\ ~result.raised
        /\ \/ /\ result.success
              /\ result.response = response /\ result.response # NoneText
              /\ result.source = response_source
              /\ result.source \in Provenances
              /\ result.error = None
           \/ /\ ~result.success
              /\ result.response = NoneText /\ result.source = None
              /\ result.error \in {"ERR_USERNAME_REQUIRED",
                                   "ERR_QUESTION_OR_FILE_REQUIRED",
                                   "ERR_FILE_NOT_FOUND",
                                   "ERR_FILE_TYPE_NOT_ALLOWED",
                                   "ERR_FILE_TYPE_UNSUPPORTED",
                                   "ERR_CHAT_HANDLER"}
              /\ (~ValidRequest \/ result.error = "ERR_CHAT_HANDLER")

C5_Witness ==
    /\ pc = "done" /\ ValidRequest
    /\ retry_state = "raised"
    /\ ~result.success /\ result.error = "ERR_CHAT_HANDLER"
    /\ conversations = <<>>

\* C6: when every call of func raised a transient error and the wall-clock
\* check never fired, the loop ends with exactly max_retries calls,
\* max_retries - 1 sleeps and a raised error.
C6_RetryBudget ==
    /\ nCalls <= max_retries
    /\ Len(sleeps) <= max_retries - 1
    /\ (/\ retry_state \in {"returned", "raised"}
        /\ nTransientRaised = nCalls
        /\ ~timeout_seen) =>
           /\ nCalls = max_retries
           /\ Len(sleeps) = max_retries - 1
           /\ retry_state = "raised"

C6_Witness ==
    /\ retry_state = "raised"
    /\ nCalls = max_retries /\ nTransientRaised = max_retries
    /\ Len(sleeps) = max_retries - 1
    /\ ~timeout_seen

\* C7: an error without a transient marker is re-raised by the iteration that
\* caught it, with no sleep and no further call; a sleep happens only while an
\* error with a transient marker is being handled.
C7_FatalNotRetried ==
    [][/\ (pc = "retry_except" /\ ~HasTransientMarker(exc)) =>
             /\ retry_state' = "raised"
             /\ pc' = "resolve"
             /\ sleeps' = sleeps
             /\ nCalls' = nCalls
             /\ attempt' = attempt
       /\ sleeps' # sleeps => (pc = "retry_except" /\ HasTransientMarker(exc))
      ]_vars

C7_Witness ==
    /\ retry_state = "raised"
    /\ ~HasTransientMarker(exc)
    /\ attempt = 1 /\ nCalls = 2 /\ Len(sleeps) = 1

\* C8: once the wall-clock check has fired, no further sleep and no further
\* call of func happens.
C8_TimeoutAborts ==
    [][timeout_seen => (sleeps' = sleeps /\ nCalls' = nCalls)]_vars

\* C9: an accepted confirmation resolves to the pending answer tagged
\* 'gemini', and no collaborator is invoked.
C9_ConfirmationAccepted ==
    (ConfirmationPair /\ Lower(req.confirm_answer) \in AcceptPhrases) =>
        /\ trace = <<>>
        /\ Resolved =>
              /\ response = req.pending_answer
              /\ response_source = "gemini"
              /\ (pc = "done" =>
                     /\ result.response = req.pending_answer
                     /\ result.source = "gemini")

C9_Witness ==
    /\ pc = "done" /\ result.success
    /\ ConfirmationPair
    /\ req.confirm_answer = <<"Y","e","s">>
    /\ req.file_id # NoFile
    /\ result.response = req.pending_answer

\* C10: a confirmation outside the accept set resolves to the cancellation
\* message tagged 'cancelled', no collaborator is invoked, and no other branch
\* produces the tag 'cancelled'.
C10_ConfirmationCancelled ==
    /\ (ConfirmationPair /\ Lower(req.confirm_answer) \notin AcceptPhrases) =>
          /\ trace = <<>>
          /\ Resolved =>
                /\ response = CancelledMsg
                /\ response_source = "cancelled"
                /\ (pc = "done" =>
                       result.response = CancelledMsg /\ result.source = "cancelled")
    /\ response_source = "cancelled" =>
          (ConfirmationPair /\ Lower(req.confirm_answer) \notin AcceptPhrases)
    /\ "cancelled" \notin {"book", "gemini", "gemini_vision", "default", "error"}

C10_Witness ==
    /\ pc = "done" /\ result.success
    /\ ConfirmationPair
    /\ req.confirm_answer = <<"n","o">>
    /\ result.source = "cancelled"

\* the request carries a file reference and no confirmation pair
FileMode == ~ConfirmationPair /\ req.file_id # NoFile
AnalyzerCalls == {"analyze_image", "analyze_document", "analyze_audio"}

\* C11: in file mode the matcher, the text-question generative stage and the
\* verifier are never invoked; at most one extractor is called, the one the
\* file's kind selects (image, document or audio); and the resolved answer
\* is exactly the text that extractor returned.
C11_FileModeExtractorOnly ==
    (FileMode /\ pc # "idle") =>
        /\ ~Invoked("search_in_book")
        /\ ~Invoked("generate_content")
        /\ ~Invoked("check_answer_from_curriculum")
        /\ prompt = NoPrompt /\ retry_state = "idle"
        /\ Len(trace) <= 1
        /\ \A i \in 1..Len(trace) :
              /\ trace[i] \in AnalyzerCalls
              /\ trace[i] = "analyze_image" <=>
                    FileExtension(req.file_id) \in {"jpg", "jpeg", "png", "gif"}
              /\ trace[i] = "analyze_document" <=>
                    FileExtension(req.file_id) \in {"pdf", "doc", "docx", "txt"}
              /\ trace[i] = "analyze_audio" <=>
                    FileExtension(req.file_id) \in
                        {"mp3", "wav", "m4a", "ogg", "flac", "webm"}
        /\ (Len(trace) = 1 /\ Resolved) =>
              /\ response = analysis.text
              /\ response_source = "gemini_vision"
              /\ (pc = "done" => result.response = analysis.text)

C11_Witness ==
    /\ FileMode /\ pc = "done" /\ result.success
    /\ trace = <<"analyze_document">>
    /\ req.file_id = "notes.txt"
    /\ Truthy(result.response) /\ result.response = analysis.text

\* C12: in file mode, an uploaded file whose extension is not one of the
\* supported image, document and audio extensions makes handle_chat return
\* an error value, not a successful resolution: no extractor is called, the
\* file is not deleted and no conversation is recorded.  (The error is the
\* type error, or the handler's generic one when the name look-ups failed
\* before the file was examined.)
C12_UnsupportedFileRejected ==
    (/\ FileMode /\ pc \in {"record", "done"}
     /\ Strip(req.username) # <<>>
     /\ req.file_id \in UploadedFiles
     /\ FileExtension(req.file_id) \notin
            {"txt", "pdf", "doc", "docx", "jpg", "jpeg", "png", "gif",
             "mp3", "wav", "m4a", "ogg", "flac", "webm"}
     /\ response_source # "error") =>
        /\ pc = "done"
        /\ ~result.success /\ ~result.raised
        /\ result.response = NoneText /\ result.source = None
        /\ result.error \in {"ERR_FILE_TYPE_NOT_ALLOWED", "ERR_CHAT_HANDLER"}
        /\ trace = <<>> /\ analysis = NoAnalysis
        /\ uploads = UploadedFiles
        /\ conversations = <<>>

C12_Witness ==
    /\ FileMode /\ pc = "done"
    /\ req.file_id = "tool.exe" /\ req.file_id \in uploads
    /\ result.error = "ERR_FILE_TYPE_NOT_ALLOWED"
    /\ conversations = <<>>

\* the extractor reported a failure, or degraded to an apology text
ExtractionFailed ==
    /\ analysis.kind # "none"
    /\ \/ analysis.io.raised
       \/ (Len(analysis.text) > 0 /\ Head(analysis.text) = "UDHRAN")

\* C13: an uploaded file is deleted only after its extractor has run and
\* processed it successfully; when the extraction or the analysis fails
\* (a reported failure, or an apology text) the file is left in place.
C13_DeletedOnlyAfterSuccess ==
    (FileMode /\ req.file_id \in UploadedFiles) =>
        /\ req.file_id \notin uploads => analysis.kind # "none"
        /\ ExtractionFailed => req.file_id \in uploads

\* search_in_book returned from its queries, for the call recorded in req
SearchReturned == pc = "returned" /\ Invoked("search_in_book") /\ exc = NoneText
SearchedTerms == Lower(Strip(req.message))
InFullScope(e) ==
    /\ e.grade_id = req.gradeId /\ e.semester_id = req.semesterId
    /\ e.department_id = req.departmentId
    /\ None \notin {req.gradeId, req.semesterId, req.departmentId}
InRelaxedScope(e) ==
    /\ e.grade_id = req.gradeId /\ e.semester_id = req.semesterId
    /\ None \notin {req.gradeId, req.semesterId}
\* the column holds the normalized query as a substring
Holds(column) == column # NoneText /\ Contains(Lower(column), SearchedTerms)

\* C14: when the full scope holds an entry whose question equals the
\* normalized query and another entry that merely contains it, the answer
\* returned is that of an entry whose question equals the query, in either
\* storage order.
C14_ExactBeforeSubstring ==
    (/\ SearchReturned
     /\ \E i, j \in 1..Len(book_qa) :
          /\ InFullScope(book_qa[i]) /\ InFullScope(book_qa[j])
          /\ Lower(book_qa[i].question) = SearchedTerms
          /\ Lower(book_qa[j].question) # SearchedTerms
          /\ Holds(book_qa[j].question)) =>
        \E i \in 1..Len(book_qa) :
            /\ InFullScope(book_qa[i])
            /\ Lower(book_qa[i].question) = SearchedTerms
            /\ book_answer = book_qa[i].answer

C14_Witness ==
    /\ SearchReturned
    /\ book_qa = <<QaSubstring, QaExact, QaOtherDept>>
    /\ req.message = <<" ","A"," ">> /\ req.departmentId = "1"
    /\ book_answer = QaExact.answer

ScopedMatch(e) ==
    /\ InFullScope(e)
    /\ (Holds(e.question) \/ Holds(e.keywords) \/ Holds(e.answer))
RelaxedMatch(e) ==
    /\ InRelaxedScope(e)
    /\ (Holds(e.question) \/ Holds(e.keywords))

\* C15: when no entry of the full scope holds the normalized query but an
\* entry of the same grade and semester holds it in its question or
\* keywords, the answer returned is that of such an entry; and when an entry
\* of the full scope holds the query, the answer returned is that of a
\* full-scope entry holding it, whatever the relaxed scope contains.
C15_PassFallback ==
    SearchReturned =>
        /\ (/\ \A i \in 1..Len(book_qa) : ~ScopedMatch(book_qa[i])
            /\ \E i \in 1..Len(book_qa) : RelaxedMatch(book_qa[i])) =>
              \E i \in 1..Len(book_qa) :
                  RelaxedMatch(book_qa[i]) /\ book_answer = book_qa[i].answer
        /\ (\E i \in 1..Len(book_qa) : ScopedMatch(book_qa[i])) =>
              \E i \in 1..Len(book_qa) :
                  ScopedMatch(book_qa[i]) /\ book_answer = book_qa[i].answer

\* C16: when no entry holds the normalized query, neither in the full scope
\* nor in the relaxed one, search_in_book returns the no-match value; a
\* failed query returns it too, never an error.
C16_NoMatchIsNone ==
    (pc = "returned" /\ Invoked("search_in_book")) =>
        /\ exc # NoneText => book_answer = NoneText
        /\ (\A i \in 1..Len(book_qa) :
                ~ScopedMatch(book_qa[i]) /\ ~RelaxedMatch(book_qa[i])) =>
              book_answer = NoneText

\* check_answer_from_curriculum returned, for the call recorded in req
VerifyReturned == pc = "returned" /\ Invoked("check_answer_from_curriculum")
CleanAnswer == Strip(Lower(gemini_answer))
Refuses ==
    \E k \in 1..Len(rejection_phrases) :
        Contains(CleanAnswer, rejection_phrases[k])
\* document f is active and belongs to the full context of the call
ActiveInContext(f) ==
    /\ f.status = "active"
    /\ f.grade_id = req.gradeId /\ f.semester_id = req.semesterId
    /\ req.departmentId \in f.departments
\* phrases of the answer, and how many of them document f holds verbatim
AnswerPhrases == GeminiPhrases(CleanAnswer)
MatchesIn(f) == CountMatches(AnswerPhrases, Strip(Lower(f.content)))

\* C17: an answer that contains a rejection phrase verifies as false,
\* whatever its overlap with the curriculum and whatever its length.
C17_RejectionPhraseFirst ==
    (VerifyReturned /\ Truthy(gemini_answer) /\ Refuses) => ~is_from_curriculum

C17_Witness ==
    /\ VerifyReturned /\ exc = NoneText
    /\ gemini_answer = RefusalGrounded /\ Refuses
    /\ developer_files = <<FileSix>> /\ ActiveInContext(FileSix)
    /\ MatchesIn(FileSix) >= 2
    /\ ~is_from_curriculum

\* C18: when no active curriculum document belongs to the full context of
\* the call, the answer verifies as false, even when it is longer than 800
\* characters.
C18_NoDocumentNoVerification ==
    (/\ VerifyReturned
     /\ \A i \in 1..Len(developer_files) :
            ~ActiveInContext(developer_files[i])) =>
        ~is_from_curriculum

C18_Witness ==
    /\ VerifyReturned /\ exc = NoneText
    /\ gemini_answer = LongGrounded /\ TextLen(gemini_answer) > 800
    /\ developer_files = <<FileDeleted>>
    /\ req.gradeId = "1" /\ req.semesterId = "1" /\ req.departmentId = "1"
    /\ ~is_from_curriculum

\* C19: an answer without a rejection phrase verifies as true when, for one
\* active document of the context, at least two of its phrases are found in
\* that document or the phrases found are 15% or more of its phrases; the
\* counts of different documents are never added up: a short answer for
\* which no single document passes the test verifies as false.
C19_PerDocumentThreshold ==
    (VerifyReturned /\ exc = NoneText /\ Truthy(gemini_answer) /\ ~Refuses) =>
        LET passes(f) ==
                /\ ActiveInContext(f)
                /\ Len(AnswerPhrases) > 0
                /\ \/ MatchesIn(f) >= 2
                   \/ 100 * MatchesIn(f) >= 15 * Len(AnswerPhrases)
        IN /\ (\E i \in 1..Len(developer_files) : passes(developer_files[i]))
                => is_from_curriculum
           /\ (/\ TextLen(gemini_answer) <= 800
               /\ \A i \in 1..Len(developer_files) :
                      ~passes(developer_files[i]))
                => ~is_from_curriculum

\* two phrases found among fourteen: below 15%, verified all the same
C19_Witness ==
    /\ VerifyReturned /\ exc = NoneText
    /\ gemini_answer = SparseText /\ developer_files = <<FileSeven>>
    /\ ActiveInContext(FileSeven)
    /\ MatchesIn(FileSeven) = 2 /\ Len(AnswerPhrases) = 14
    /\ is_from_curriculum

\* one phrase found in each of two documents: the sum is not used
C19_NotSummed ==
    /\ VerifyReturned /\ exc = NoneText
    /\ gemini_answer = SparseText
    /\ developer_files = <<FileSix, FileTwoToSeven>>
    /\ ActiveInContext(FileSix) /\ ActiveInContext(FileTwoToSeven)
    /\ MatchesIn(FileSix) = 1 /\ MatchesIn(FileTwoToSeven) = 1
    /\ ~is_from_curriculum

\* the texts of the exceptions the external calls raise
RawErrors == UpstreamErrors \cup {TimeoutExceededMsg, ErrIo}

\* C20: the answer text delivered, in question mode and in file mode alike,
\* never contains the text of an exception raised by the generative model
\* or inside the content extractor.
C20_NoRawErrorDetail ==
    Resolved =>
        \A e \in RawErrors :
            /\ ~Contains(response, e)
            /\ (pc = "done" => ~Contains(result.response, e))

\* C21: in question mode without a knowledge-base answer, when the
\* generative stage yields nothing (no client, or a response whose text is
\* None or empty), the response is the fixed deflection message with
\* provenance "default", and the verifier has not run.
C21_NothingIsDeflection ==
    (/\ QuestionMode /\ Resolved
     /\ ~Truthy(book_answer) /\ ~Truthy(gemini_answer)) =>
        /\ response = DeflectionMsg(DepartmentName(req.departmentId))
        /\ response_source = "default"
        /\ ~Invoked("check_answer_from_curriculum")
        /\ ~is_from_curriculum
        /\ (pc = "done" => /\ result.response = response
                           /\ result.source = "default")

C21_Witness ==
    /\ QuestionMode /\ pc = "done" /\ result.success
    /\ gemini_client /\ retry_state = "returned" /\ gemini_answer = <<>>
    /\ Invoked("search_in_book") /\ Invoked("generate_content")
    /\ result.source = "default"

\* C22: the successive waits of gemini_with_retry never decrease, and every
\* wait lies between 1 and 5.5 seconds, whatever the jitters drawn.
C22_BackoffMonotone ==
    /\ \A i \in 1..Len(sleeps) :
          /\ sleeps[i] >= 1 * Scale
          /\ 2 * sleeps[i] <= 11 * Scale
    /\ \A i, j \in 1..Len(sleeps) : i < j => sleeps[i] <= sleeps[j]

\* the base delay has reached its cap, and waits with and without jitter
\* have been made
C22_Witness ==
    /\ Len(sleeps) = BackoffRetries - 1
    /\ retry_delay = MaxSleep * Scale
    /\ sleeps[1] = 1 * Scale + MaxJitterNum
    /\ sleeps[2] = (3 * Scale) \div 2
    /\ sleeps[Len(sleeps)] = MaxSleep * Scale

\* C23: of two concurrent requests on the same uploaded file, none deletes
\* the file while the other is between its existence test and the end of
\* its extraction: no analyzer runs on a file that is already deleted.
C23_NoDeleteUnderReader ==
    \A w \in DOMAIN workers :
        /\ workers[w].pc = "checked" => SharedFile \in uploads
        /\ ~workers[w].missing

(***************************************************************************)
(* Curriculum documents under administration.                              *)
(***************************************************************************)
Grounded == trace = <<"get_gemini_response", "check_answer_from_curriculum">>
DeletedIds == {u.file_id : u \in unlinked}
\* the table as it would be had the deleted documents never been uploaded
WithoutDeleted ==
    [i \in 1..Len(developer_files) |->
        IF RowId(i) \in DeletedIds
        THEN [developer_files[i] EXCEPT !.content = <<>>,
                                        !.departments = {},
                                        !.status = "deleted"]
        ELSE developer_files[i]]

\* C24: whatever uploads and deletions came before, a question is grounded
\* in active documents only: a document deleted by delete_developer_file
\* contributes nothing to the prompt built afterwards and is not counted by
\* the audit made afterwards, in every context.
C24_DeletedNeverGrounds ==
    [][(Grounded' /\ served' = served + 1) =>
          /\ prompt'.curriculum \in
                {<<>>, CurriculumParts(WithoutDeleted, req'.gradeId,
                                       req'.semesterId, req'.departmentId)}
          /\ is_from_curriculum' =>
                check_answer_from_curriculum(WithoutDeleted, gemini_answer',
                    req'.gradeId, req'.semesterId, req'.departmentId)
          /\ \A i \in 1..Len(developer_files) :
                developer_files[i].status # "active" =>
                    RowId(i) \in DeletedIds \/ developer_files[i].departments = {}]_vars

\* a question asked in a context of a deleted document, answered with that
\* document's text: the prompt is empty and the audit says no
C24_Witness ==
    /\ Grounded
    /\ \E u \in unlinked :
          /\ req.gradeId = u.grade_id
          /\ req.semesterId = u.semester_id
          /\ req.departmentId = u.department_id
          /\ u.department_id = "2"
          /\ developer_files[IdIndex(u.file_id)].content = DocSix
    /\ gemini_answer = GroundedText
    /\ prompt.built /\ prompt.curriculum = <<>>
    /\ ~is_from_curriculum

IsPrefix(p, s) == Len(p) <= Len(s) /\ SubSeq(s, 1, Len(p)) = p
ContextRows ==
    ActiveDocRows(developer_files, req.gradeId, req.semesterId,
                  req.departmentId)

\* C25: the curriculum of a prompt holds at most three documents, and each
\* of them contributes its first 100,000 characters at most: a document is
\* cut on its own, whatever the lengths of the others.
C25_ThreeDocsCeiling ==
    Grounded =>
        /\ Len(prompt.curriculum) <= 3
        /\ \A k \in 1..Len(prompt.curriculum) :
              /\ TextLen(prompt.curriculum[k]) <= 100000
              /\ k <= Len(ContextRows)
              /\ IsPrefix(prompt.curriculum[k], ContextRows[k].content)
              /\ \/ prompt.curriculum[k] = ContextRows[k].content
                 \/ /\ TextLen(ContextRows[k].content) > 100000
                    /\ TextLen(prompt.curriculum[k]) = 100000

\* four documents match, the first and the third are over the ceiling: three
\* are taken, the first and third cut, the second whole
C25_Witness ==
    /\ Grounded
    /\ Len(ContextRows) = 4
    /\ Len(prompt.curriculum) = 3
    /\ TextLen(ContextRows[1].content) > 100000
    /\ TextLen(prompt.curriculum[1]) = 100000
    /\ prompt.curriculum[2] = ContextRows[2].content
    /\ TextLen(prompt.curriculum[3]) = 100000

DocPasses(f) ==
    /\ Len(AnswerPhrases) > 0
    /\ \/ MatchesIn(f) >= 2
       \/ 100 * MatchesIn(f) >= 15 * Len(AnswerPhrases)
\* the active documents of the call's context that hold text
VerifyRows == SelectSeq(developer_files,
                        LAMBDA f : ActiveInContext(f) /\ Truthy(f.content))
FallbackCase ==
    /\ VerifyReturned /\ exc = NoneText
    /\ Truthy(gemini_answer) /\ ~Refuses
    /\ VerifyRows # <<>>
    /\ \A i \in 1..Len(VerifyRows) : ~DocPasses(VerifyRows[i])

C26_AtThresholdFalse ==
    /\ FallbackCase
    /\ TextLen(gemini_answer) = 800
    /\ ~is_from_curriculum

C26_PhrasesUnmatched ==
    /\ FallbackCase
    /\ Len(AnswerPhrases) > 0
    /\ TextLen(gemini_answer) > 800
    /\ is_from_curriculum

QuestionPositions ==
    {"search", "gemini", "retry_try", "retry_except", "raised", "resolve"}

\* C27: a request takes one branch only, the confirmation pair before the
\* file and the file before the question; with a confirmation pair, a
\* file_id sent along reaches no extractor and the file is not deleted.
C27_BranchPrecedence ==
    pc # "idle" =>
        /\ ConfirmationPair =>
              /\ pc \in {"record", "done"}
              /\ trace = <<>> /\ analysis = NoAnalysis
              /\ uploads = UploadedFiles
              /\ Resolved => response_source \in {"gemini", "cancelled"}
        /\ FileMode =>
              /\ pc \in {"file", "record", "done"}
              /\ \A i \in 1..Len(trace) : trace[i] \in AnalyzerCalls
              /\ Resolved => response_source \in {"gemini_vision", "error"}
        /\ QuestionMode =>
              /\ pc \in QuestionPositions \cup {"record", "done"}
              /\ \A i \in 1..Len(trace) : trace[i] \notin AnalyzerCalls
              /\ analysis = NoAnalysis /\ uploads = UploadedFiles
              /\ Resolved => response_source \in {"book", "gemini", "default"}

\* a confirmation pair sent with the name of an uploaded image
C27_Witness ==
    /\ pc = "done" /\ result.success
    /\ ConfirmationPair
    /\ req.file_id = "pic.PNG" /\ Strip(req.message) # <<>>
    /\ trace = <<>> /\ "pic.PNG" \in uploads
    /\ result.source = "cancelled"

\* C28: a call that returns success has inserted one record, no more, whose
\* bot_response and response_source are the response and source returned; a
\* call whose record could not be inserted returns the generic error in
\* place of the answer it had computed, in file mode possibly with the file
\* already deleted.
C28_SuccessIsRecorded ==
    pc = "done" =>
        /\ result.success =>
              /\ Len(conversations) = 1
              /\ conversations[1].bot_response = result.response
              /\ conversations[1].response_source = result.source
              /\ result.response = response /\ result.source = response_source
        /\ ~result.success => conversations = <<>>
        /\ (~result.success /\ response_source # None) =>
              /\ result.error = "ERR_CHAT_HANDLER"
              /\ result.response = NoneText /\ result.source = None

\* a question answered by the knowledge base, recorded and returned
C28_Witness ==
    /\ pc = "done" /\ result.success
    /\ QuestionMode /\ Truthy(book_answer)
    /\ Len(conversations) = 1
    /\ conversations[1].bot_response = book_answer
    /\ conversations[1].response_source = "book"
    /\ conversations[1].bot_response # conversations[1].user_message

\* an analysed file, deleted, whose conversation could not be recorded
C28_FailedAfterDeletion ==
    /\ pc = "done" /\ ~result.success
    /\ FileMode /\ response_source = "gemini_vision"
    /\ req.file_id \in UploadedFiles /\ req.file_id \notin uploads
    /\ result.error = "ERR_CHAT_HANDLER"
    /\ conversations = <<>>

(***************************************************************************)
(* The end of the administrator's authority.                               *)
(***************************************************************************)
AdminOperations ==
    {"add_grade", "delete_grade", "add_semester", "delete_semester",
     "add_department", "delete_department", "upload_developer_file",
     "delete_developer_file"}
\* admin_logout was called, or more than 1800 s have passed, since the last
\* successful admin_login
Lapsed ==
    \/ authority.logged_out
    \/ /\ authority.login_time # NoTime
       /\ now - authority.login_time > 1800
SessionTimedOut ==
    /\ ~authority.logged_out
    /\ authority.login_time # NoTime
    /\ now - authority.login_time > 1800

\* C29: after admin_logout, or once more than 1800 s have passed since
\* admin_login, and until the next successful admin_login,
\* check_admin_session reports is_admin false and every administrative
\* operation returns the unauthorized error and leaves the grades,
\* semesters, departments and curriculum documents as they were.
C29_LapsedSessionRefused ==
    [][(Lapsed /\ served' = served + 1) =>
          /\ trace' = <<"validate_admin_session">> => ~result'.is_admin
          /\ trace'[1] \in AdminOperations =>
                /\ result' = Failure(Unauthorized)
                /\ UNCHANGED <<grades, semesters, departments,
                               developer_files>>]_vars

\* the part of C29 that is about the timeout alone
C29_TimedOutRefused ==
    [][(SessionTimedOut /\ served' = served + 1) =>
          /\ trace' = <<"validate_admin_session">> => ~result'.is_admin
          /\ trace'[1] \in AdminOperations =>
                /\ result' = Failure(Unauthorized)
                /\ UNCHANGED <<grades, semesters, departments,
                               developer_files>>]_vars

\* an operation refused because the session had timed out
C29_TimedOutSeen ==
    /\ SessionTimedOut
    /\ trace = <<"add_grade">> /\ result = Failure(Unauthorized)
    /\ session = NoSession

PartlyScoped ==
    req.gradeId = None \/ req.semesterId = None \/ req.departmentId = None

\* C30: when the grade, the semester or the department of the context is
\* missing, get_gemini_response fetches no document and its prompt carries
\* the fixed placeholder in place of the curriculum, and
\* check_answer_from_curriculum says false whatever the answer.
C30_PartlyScopedUngrounded ==
    (Grounded /\ PartlyScoped) =>
        /\ prompt.built
        /\ prompt.curriculum = <<>>
        /\ prompt.section = <<"MSG_NO_CURRICULUM">>
        /\ ~is_from_curriculum

\* no grade given: a document of the semester and department exists and
\* holds the answer word for word, and the answer is long
C30_Witness ==
    /\ Grounded
    /\ req.gradeId = None /\ req.semesterId = "1" /\ req.departmentId = "1"
    /\ developer_files = <<FileSix>>
    /\ gemini_answer = LongGrounded /\ TextLen(gemini_answer) > 800
    /\ prompt.section = <<"MSG_NO_CURRICULUM">>
    /\ ~is_from_curriculum

====
